---- MODULE Spec2Model ----
(***************************************************************************)
(* A model of bio-news-agent: the RSS collector with URL normalization and *)
(* retry (src/src/collector.py), the filter node and the LangGraph         *)
(* pipeline (src/src/graph.py) and the markdown renderer                   *)
(* (src/src/renderer.py).                                                  *)
(*                                                                         *)
(* Python strings whose characters matter (URLs) are sequences of          *)
(* one-character strings; Python dicts are TLA+ records/functions whose    *)
(* DOMAIN is the key set; Python lists are sequences.                      *)
(***************************************************************************)
EXTENDS Integers, Sequences, FiniteSets, TLC

(***************************************************************************)
(* Character and string helpers (str methods used by the source).          *)
(***************************************************************************)
UpperCase == <<"A","B","C","D","E","F","G","H","I","J","K","L","M",
               "N","O","P","Q","R","S","T","U","V","W","X","Y","Z">>
LowerCase == <<"a","b","c","d","e","f","g","h","i","j","k","l","m",
               "n","o","p","q","r","s","t","u","v","w","x","y","z">>
Digits == {"0","1","2","3","4","5","6","7","8","9"}

IsUpper(c) == \E i \in 1..26 : UpperCase[i] = c
IsAlpha(c) == \E i \in 1..26 : UpperCase[i] = c \/ LowerCase[i] = c

\* str.lower() on one character
LowerChar(c) ==
  IF IsUpper(c) THEN LowerCase[CHOOSE i \in 1..26 : UpperCase[i] = c] ELSE c

\* str.lower()
lower(s) == [i \in 1..Len(s) |-> LowerChar(s[i])]

\* str.startswith(prefix)
startswith(s, prefix) ==
  Len(s) >= Len(prefix) /\ SubSeq(s, 1, Len(prefix)) = prefix

\* str.find(c) for a one-character c, 1-based; 0 when absent
find(s, c) ==
  IF \E i \in 1..Len(s) : s[i] = c
  THEN CHOOSE i \in 1..Len(s) : s[i] = c /\ \A j \in 1..(i-1) : s[j] # c
  ELSE 0

\* str.rfind(c) for a one-character c, 1-based; 0 when absent
rfind(s, c) ==
  IF \E i \in 1..Len(s) : s[i] = c
  THEN CHOOSE i \in 1..Len(s) : s[i] = c /\ \A j \in (i+1)..Len(s) : s[j] # c
  ELSE 0

\* s[i:] with a 1-based i
From(s, i) == SubSeq(s, i, Len(s))

RECURSIVE rstrip(_, _)
\* str.rstrip(chars)
rstrip(s, chars) ==
  IF s # <<>> /\ s[Len(s)] \in chars THEN rstrip(SubSeq(s, 1, Len(s) - 1), chars) ELSE s

RECURSIVE lstrip(_, _)
\* str.lstrip(chars)
lstrip(s, chars) ==
  IF s # <<>> /\ s[1] \in chars THEN lstrip(Tail(s), chars) ELSE s

Whitespace == {" ", "\n"}

\* str.strip()
strip(s) == lstrip(rstrip(s, Whitespace), Whitespace)

RECURSIVE split(_, _)
\* str.split(sep) for a one-character sep: the list of pieces
split(s, sep) ==
  LET i == find(s, sep)
  IN  IF i = 0 THEN <<s>>
      ELSE <<SubSeq(s, 1, i - 1)>> \o split(From(s, i + 1), sep)

RECURSIVE join(_, _)
\* sep.join(pieces)
join(pieces, sep) ==
  IF pieces = <<>> THEN <<>>
  ELSE IF Len(pieces) = 1 THEN pieces[1]
  ELSE pieces[1] \o sep \o join(Tail(pieces), sep)

RECURSIVE SelectFrom(_, _, _)
\* the elements s[j], j >= i, whose mask[j] is TRUE, in order
SelectFrom(s, mask, i) ==
  IF i > Len(s) THEN <<>>
  ELSE (IF mask[i] THEN <<s[i]>> ELSE <<>>) \o SelectFrom(s, mask, i + 1)

\* [x for j, x in enumerate(s) if mask[j]]
Select(s, mask) == SelectFrom(s, mask, 1)

\* the set of elements of a sequence
Range(s) == {s[i] : i \in 1..Len(s)}

IsLower(c) == \E i \in 1..26 : LowerCase[i] = c

\* str.upper() on one character
UpperChar(c) ==
  IF IsLower(c) THEN UpperCase[CHOOSE i \in 1..26 : LowerCase[i] = c] ELSE c

\* str.upper()
upper(s) == [i \in 1..Len(s) |-> UpperChar(s[i])]

\* str.isupper(): a cased character, and no lowercase one
isupper(s) ==
  /\ \E i \in 1..Len(s) : IsUpper(s[i])
  /\ \A i \in 1..Len(s) : ~IsLower(s[i])

\* the characters \w matches
WordChars == Range(UpperCase) \cup Range(LowerCase) \cup Digits \cup {"_"}

\* the characters word.strip("',.-()[]") removes
Punctuation == {"'", ",", ".", "-", "(", ")", "[", "]"}

RECURSIVE SpanOf(_, _, _)
\* the number of leading characters of s that are in chars (inside = TRUE)
\* or that are not in chars (inside = FALSE)
SpanOf(s, chars, inside) ==
  IF s = <<>> \/ ((s[1] \in chars) # inside) THEN 0
  ELSE 1 + SpanOf(Tail(s), chars, inside)

RECURSIVE split_whitespace(_)
\* str.split(): the pieces between runs of whitespace
split_whitespace(s) ==
  LET t == lstrip(s, Whitespace)
      n == SpanOf(t, Whitespace, FALSE)
  IN  IF t = <<>> THEN <<>>
      ELSE <<SubSeq(t, 1, n)>> \o split_whitespace(From(t, n + 1))

Min(a, b) == IF a < b THEN a ELSE b

\* the characters of the model in code point order
CodePointOrder ==
  <<"\n", " ", "!", "$", "&", "'", "(", ")", ",", "-", ".",
    "0", "1", "2", "3", "4", "5", "6", "7", "8", "9", ":">>
    \o UpperCase \o <<"[", "]", "_">> \o LowerCase
CodePoint(c) == CHOOSE i \in 1..Len(CodePointOrder) : CodePointOrder[i] = c

RECURSIVE StrLeq(_, _)
\* a <= b for Python strings
StrLeq(a, b) ==
  IF a = <<>> THEN TRUE
  ELSE IF b = <<>> THEN FALSE
  ELSE IF a[1] = b[1] THEN StrLeq(Tail(a), Tail(b))
  ELSE CodePoint(a[1]) < CodePoint(b[1])

RECURSIVE sorted_set(_)
\* sorted(S) for a set of strings
sorted_set(S) ==
  IF S = {} THEN <<>>
  ELSE LET least == CHOOSE x \in S : \A y \in S : StrLeq(x, y)
       IN  <<least>> \o sorted_set(S \ {least})

(***************************************************************************)
(* collector.py: normalize_url                                             *)
(***************************************************************************)
_TRACKING_PARAMS == {
  <<"u", "t", "m", "_", "s", "o", "u", "r", "c", "e">>,
  <<"u", "t", "m", "_", "m", "e", "d", "i", "u", "m">>,
  <<"u", "t", "m", "_", "c", "a", "m", "p", "a", "i", "g", "n">>,
  <<"u", "t", "m", "_", "t", "e", "r", "m">>,
  <<"u", "t", "m", "_", "c", "o", "n", "t", "e", "n", "t">>,
  <<"r", "e", "f">>,
  <<"s", "o", "u", "r", "c", "e">>,
  <<"f", "b", "c", "l", "i", "d">>,
  <<"g", "c", "l", "i", "d">>,
  <<"m", "c", "_", "c", "i", "d">>,
  <<"m", "c", "_", "e", "i", "d">> }

\* urllib.parse scheme_chars
IsSchemeChar(c) == IsAlpha(c) \/ c \in Digits \/ c \in {"+", "-", "."}

\* the members of urllib.parse uses_netloc / uses_params that the inputs use
uses_netloc == { <<>>, <<"h","t","t","p">>, <<"h","t","t","p","s">> }

\* urllib.parse._splitnetloc(url, 2): the index of the first of "/?#" at or
\* after position 3 (1-based), Len(url)+1 when there is none
NetlocEnd(url) ==
  IF \E i \in 3..Len(url) : url[i] \in {"/", "?", "#"}
  THEN CHOOSE i \in 3..Len(url) :
         url[i] \in {"/", "?", "#"} /\ \A j \in 3..(i-1) : url[j] \notin {"/", "?", "#"}
  ELSE Len(url) + 1

\* urllib.parse._splitparams(path): <<path, params>>, the path cut at the
\* first ";" (at index i) of its last segment
CutParams(url, i) ==
  IF i = 0 THEN <<url, <<>>>> ELSE <<SubSeq(url, 1, i - 1), From(url, i + 1)>>

\* the index in url of the first ";" after the last "/" (at index slash);
\* 0 when there is none
ParamsIndex(url, slash) ==
  IF find(From(url, slash + 1), ";") = 0 THEN 0
  ELSE slash + find(From(url, slash + 1), ";")

splitparams(url) == CutParams(url, ParamsIndex(url, rfind(url, "/")))

\* urlparse: the result tuple, path_params being <<path, params>>
ParseResult(scheme, netloc, path_params, query, fragment) ==
  [scheme |-> scheme, netloc |-> netloc, path |-> path_params[1],
   params |-> path_params[2], query |-> query, fragment |-> fragment]

\* urlparse: if scheme in uses_params and ";" in url: _splitparams(url)
PathParams(scheme, url) ==
  IF scheme \in uses_netloc /\ find(url, ";") > 0
  THEN splitparams(url) ELSE <<url, <<>>>>

\* urlsplit: if "?" in url: url, query = url.split("?", 1); qm is the index
\* of the first "?"
SplitQuery(scheme, netloc, fragment, url, qm) ==
  ParseResult(scheme, netloc,
              PathParams(scheme, IF qm > 0 THEN SubSeq(url, 1, qm - 1) ELSE url),
              IF qm > 0 THEN From(url, qm + 1) ELSE <<>>,
              fragment)

\* urlsplit: if "#" in url: url, fragment = url.split("#", 1); hash is the
\* index of the first "#"
SplitFragment(scheme, netloc, url, hash) ==
  SplitQuery(scheme, netloc,
             IF hash > 0 THEN From(url, hash + 1) ELSE <<>>,
             IF hash > 0 THEN SubSeq(url, 1, hash - 1) ELSE url,
             find(IF hash > 0 THEN SubSeq(url, 1, hash - 1) ELSE url, "?"))

\* urlsplit: if url[:2] == "//": netloc, url = _splitnetloc(url, 2); cut is
\* the index at which the netloc ends
SplitNetlocAt(scheme, url, cut) ==
  SplitFragment(scheme, SubSeq(url, 3, cut - 1), From(url, cut),
                find(From(url, cut), "#"))

SplitNetloc(scheme, url) ==
  IF Len(url) >= 2 /\ SubSeq(url, 1, 2) = <<"/", "/">>
  THEN SplitNetlocAt(scheme, url, NetlocEnd(url))
  ELSE SplitFragment(scheme, <<>>, url, find(url, "#"))

\* urlsplit: the scheme is what stands before the first ":" (at index
\* colon) when it starts with a letter and consists of scheme characters
SplitScheme(url, colon) ==
  IF /\ colon > 1
     /\ IsAlpha(url[1])
     /\ \A j \in 1..(colon - 1) : IsSchemeChar(url[j])
  THEN SplitNetloc(lower(SubSeq(url, 1, colon - 1)), From(url, colon + 1))
  ELSE SplitNetloc(<<>>, url)

\* urllib.parse.urlparse(url): the six components
urlparse(url0) ==
  SplitScheme(lstrip(url0, Whitespace), find(lstrip(url0, Whitespace), ":"))

\* urllib.parse.urlunparse((scheme, netloc, path, "", query, ""))
urlunparse(scheme, netloc, path, query) ==
  LET a == IF netloc # <<>> \/ (scheme # <<>> /\ scheme \in uses_netloc
                                  /\ ~startswith(path, <<"/", "/">>))
           THEN <<"/", "/">> \o netloc
                  \o (IF path # <<>> /\ path[1] # "/" THEN <<"/">> ELSE <<>>) \o path
           ELSE path
      b == IF scheme # <<>> THEN scheme \o <<":">> \o a ELSE a
  IN  IF query # <<>> THEN b \o <<"?">> \o query ELSE b

\* name, value = the piece cut at its first "=" (at index e)
NameValue(nv, e) ==
  IF e = 0 THEN <<nv, <<>>>> ELSE <<SubSeq(nv, 1, e - 1), From(nv, e + 1)>>

\* the pieces of a query that are not empty
QueryPieces(pieces) == Select(pieces, [i \in 1..Len(pieces) |-> pieces[i] # <<>>])

NameValues(kept) == [j \in 1..Len(kept) |-> NameValue(kept[j], find(kept[j], "="))]

\* urllib.parse.parse_qsl(qs, keep_blank_values=True): the list of
\* <<name, value>> pairs in the order they occur.  Percent- and plus-decoding
\* act as the identity on the characters the inputs are made of.
parse_qsl(qs) == NameValues(QueryPieces(split(qs, "&")))

\* the values of the pairs, in order
ValuesOf(pairs) == [j \in 1..Len(pairs) |-> pairs[j][2]]

\* the pairs whose name is name
PairsOf(pairs, name) == Select(pairs, [i \in 1..Len(pairs) |-> pairs[i][1] = name])

\* the pairs whose name occurs for the first time
FirstPairs(pairs) ==
  Select(pairs, [i \in 1..Len(pairs) |-> \A j \in 1..(i-1) : pairs[j][1] # pairs[i][1]])

\* parse_qs: parsed_result[name] = [value, ...] for the pairs in order
GroupPairs(pairs, first) ==
  [j \in 1..Len(first) |-> <<first[j][1], ValuesOf(PairsOf(pairs, first[j][1]))>>]

GroupByName(pairs) == GroupPairs(pairs, FirstPairs(pairs))

\* urllib.parse.parse_qs(qs, keep_blank_values=True): a dict name -> list of
\* values; a dict keeps its keys in the order of first insertion, so the dict
\* is the list of <<name, values>> in that order.
parse_qs(qs) == GroupByName(parse_qsl(qs))

RECURSIVE FlattenDict(_)
\* the <<name, value>> list urlencode(d, doseq=True) walks through
FlattenDict(d) ==
  IF d = <<>> THEN <<>>
  ELSE [j \in 1..Len(d[1][2]) |-> <<d[1][1], d[1][2][j]>>] \o FlattenDict(Tail(d))

\* "&".join of name=value
EncodePairs(flat) ==
  join([j \in 1..Len(flat) |-> flat[j][1] \o <<"=">> \o flat[j][2]], <<"&">>)

\* urllib.parse.urlencode(d, doseq=True); quote_plus is the identity on the
\* characters the inputs are made of
urlencode(d) == EncodePairs(FlattenDict(d))

\* {k: v for k, v in params.items() if k.lower() not in _TRACKING_PARAMS}
FilterTracking(params) ==
  Select(params, [i \in 1..Len(params) |-> lower(params[i][1]) \notin _TRACKING_PARAMS])

\* netloc[4:] when netloc.startswith("www.")
StripWww(netloc) ==
  IF startswith(netloc, <<"w", "w", "w", ".">>) THEN From(netloc, 5) ELSE netloc

\* urlencode(filtered, doseq=True) if filtered else ""
EncodeFiltered(filtered) == IF filtered # <<>> THEN urlencode(filtered) ELSE <<>>

\* the query of the normalized URL
NormalQuery(query) ==
  IF query # <<>> THEN EncodeFiltered(FilterTracking(parse_qs(query))) ELSE <<>>

\* urlunparse of the normalized components
Normalized(parsed) ==
  urlunparse(lower(parsed.scheme), StripWww(lower(parsed.netloc)),
             rstrip(parsed.path, {"/"}), NormalQuery(parsed.query))

normalize_url(url0) == Normalized(urlparse(strip(url0)))

(***************************************************************************)
(* Inputs of normalize_url                                                 *)
(***************************************************************************)
MaxWww == 2
MaxParams == 3

Schemes == { <<"h", "t", "t", "p", "s">>, <<"H", "T", "T", "P", "S">> }
HostNames == { <<"e", ".", "c", "o">>, <<"E", ".", "C", "o">> }
WwwLabels == { <<"W", "W", "W", ".">> }
PathChoices == { <<>>, <<"/">>, <<"/", "A">>, <<"/", "a", "/", "/">>, <<"/", "a", ";", "x", "/">> }
ParamChoices == { <<"u", "t", "m", "_", "s", "o", "u", "r", "c", "e", "=", "x">>,
                  <<"F", "B", "C", "L", "I", "D", "=", "z">>,
                  <<"a", "=", "1">>, <<"b", "=", "2">>, <<"p">> }
FragmentChoices == { <<>>, <<"#", "s">> }

RECURSIVE Repeat(_, _)
Repeat(s, k) == IF k = 0 THEN <<>> ELSE s \o Repeat(s, k - 1)

Hosts == { Repeat(<<"w", "w", "w", ".">>, k) \o h : k \in 0..MaxWww, h \in HostNames }
           \cup { w \o h : w \in WwwLabels, h \in HostNames }

ParamLists == UNION { [1..n -> ParamChoices] : n \in 0..MaxParams }

QueryOf(ps) == IF ps = <<>> THEN <<>> ELSE <<"?">> \o join(ps, <<"&">>)

(***************************************************************************)
(* State.                                                                  *)
(*   pc          where the modelled run stands                             *)
(*   config      config.py: the values loaded once from the environment,   *)
(*               with the time zone and what feeds.json is (feeds_json)    *)
(*   FEEDS       collector.py: the feed registry loaded once               *)
(*   state       graph.py DigestState, the dict threaded through the nodes *)
(*   news_md     the texts written to news.md in this run, in order        *)
(*   executed    the nodes that have returned, in order                    *)
(*   llm_requests  the chat completion requests issued in this run, in     *)
(*               order: the node, the titles listed in the prompt and what *)
(*               the request met (an exception or the reply's content)     *)
(*   url, normalized            argument and result of normalize_url       *)
(*   deduped, skipped_source_cap, skipped_papers                           *)
(*               node_filter's locals items (the deduplicate result),      *)
(*               skipped_source_cap and skipped_papers                     *)
(*   feed_i, failures, collected, fetch_log                                *)
(*               collect_items: the position of its loop over FEEDS, the   *)
(*               exceptions of the failed attempts of the fetch under way  *)
(*               (tenacity's retry state), its local list items, and for   *)
(*               each feed fetched the number of attempts made and the     *)
(*               outcome of the last                                       *)
(***************************************************************************)
VARIABLES pc, config, FEEDS, state, news_md, executed, url, normalized,
          deduped, skipped_source_cap, skipped_papers,
          feed_i, failures, collected, fetch_log, llm_requests

vars == <<pc, config, FEEDS, state, news_md, executed, url, normalized,
          deduped, skipped_source_cap, skipped_papers,
          feed_i, failures, collected, fetch_log, llm_requests>>

urlVars == <<url, normalized>>
filterVars == <<deduped, skipped_source_cap, skipped_papers>>
collectVars == <<feed_i, failures, collected, fetch_log>>
outVars == <<news_md, executed>>

NoUrl == <<"<", "n", "o", "n", "e", ">">>

\* values of the variables a specification does not use
IdleUrl == url = NoUrl /\ normalized = NoUrl
IdleFilter == deduped = <<>> /\ skipped_source_cap = 0 /\ skipped_papers = 0
IdleCollect == feed_i = 1 /\ failures = <<>> /\ collected = <<>> /\ fetch_log = <<>>
IdleOut == news_md = <<>> /\ executed = <<>> /\ llm_requests = <<>>

\* what _FEEDS_FILE.read_text() meets (read: "ok" or the exception raised)
\* and, when the text is read, what json.loads makes of it (json: the
\* type of the value, or "invalid" for JSONDecodeError)
FeedsFile(read, json) == [read |-> read, json |-> json]

\* config.py defaults (the environment may override each); feeds.json is a
\* JSON object
DefaultConfig ==
  [PAPER_LIMIT |-> 7, RSS_RETRIES |-> 2, MAX_ITEMS_PER_SOURCE |-> 8,
   OPENAI_API_KEY |-> FALSE, TZ |-> 0, feeds_json |-> FeedsFile("ok", "dict")]

\* dict helpers: d.get(k, default) and d[k] = v
Get(d, k, default) == IF k \in DOMAIN d THEN d[k] ELSE default
SetKey(d, k, v) == [x \in (DOMAIN d) \cup {k} |-> IF x = k THEN v ELSE d[x]]

(***************************************************************************)
(* graph.py: build_graph.  The compiled graph runs the node at pc, and     *)
(* when the node has returned it goes on to the node its edge leads to; a  *)
(* node without an edge ends the run.  A node that raises ends the run     *)
(* with that exception (pc = "raised").                                    *)
(***************************************************************************)
\* g.set_entry_point("collect")
entry_point == "collect"

\* g.add_edge(a, b), as a dict a -> b
edges == [collect |-> "filter", filter |-> "shortify",
          shortify |-> "categorize", categorize |-> "render"]

\* a graph whose edge from shortify leads past categorize
Successor_skips_categorize(node) ==
  IF node = "shortify" THEN "render"
  ELSE IF node \in DOMAIN edges THEN edges[node] ELSE "END"

\* where the run goes when node has returned
Successor(node) == IF node \in DOMAIN edges THEN edges[node] ELSE "END"

(***************************************************************************)
(* normalize_url as one step                                               *)
(***************************************************************************)
InitUrl ==
  /\ pc = "normalize_url"
  /\ config = DefaultConfig
  /\ FEEDS = <<>>
  /\ state = <<>>
  /\ \E s \in Schemes, h \in Hosts, p \in PathChoices, ps \in ParamLists,
        f \in FragmentChoices :
       url = s \o <<":", "/", "/">> \o h \o p \o QueryOf(ps) \o f
  /\ normalized = NoUrl
  /\ IdleFilter /\ IdleCollect /\ IdleOut

\* one call normalized_link = normalize_url(link)
NormalizeUrl ==
  /\ pc = "normalize_url"
  /\ normalized' = normalize_url(url)
  /\ pc' = "normalized"
  /\ UNCHANGED <<config, FEEDS, llm_requests, state, url, filterVars, collectVars, outVars>>

NextUrl == NormalizeUrl

SpecUrl == InitUrl /\ [][NextUrl]_vars

(***************************************************************************)
(* filterer.deduplicate (its source is not in the repository snapshot; the *)
(* contract of spec section 4.4 and tests/test_filterer.py) and            *)
(* graph.py: node_filter                                                   *)
(***************************************************************************)
RECURSIVE DedupFold(_, _)
\* latest[id] after the items were seen in order: a list of items in the
\* order their ids first occurred; a later item replaces the one kept for
\* its id when it is published strictly later
DedupFold(items, latest) ==
  IF items = <<>> THEN latest
  ELSE LET it == Head(items)
           same == {j \in 1..Len(latest) : latest[j].id = it.id}
       IN  IF same = {}
           THEN DedupFold(Tail(items), Append(latest, it))
           ELSE LET j == CHOOSE j \in same : TRUE
                IN  DedupFold(Tail(items),
                      IF it.published > latest[j].published
                      THEN [latest EXCEPT ![j] = it] ELSE latest)

RECURSIVE KeepFirstFold(_, _)
\* a deduplicate that keeps the first item seen for each id
KeepFirstFold(items, latest) ==
  IF items = <<>> THEN latest
  ELSE LET it == Head(items)
       IN  KeepFirstFold(Tail(items),
             IF \E j \in 1..Len(latest) : latest[j].id = it.id
             THEN latest ELSE Append(latest, it))

deduplicate_keeps_first(items) == KeepFirstFold(items, <<>>)

deduplicate(items) == DedupFold(items, <<>>)

\* "Papers" in source
Papers == <<"P", "a", "p", "e", "r", "s">>

\* sub in s, for strings
contains(s, sub) ==
  \E i \in 1..(Len(s) - Len(sub) + 1) : SubSeq(s, i, i + Len(sub) - 1) = sub

IsPaper(source) == contains(source, Papers)

RECURSIVE InsertDesc(_, _)
\* x put into a list sorted by published descending, after every item
\* published at the same time or later (the sort is stable)
InsertDesc(sorted, x) ==
  IF sorted = <<>> THEN <<x>>
  ELSE IF Head(sorted).published >= x.published
       THEN <<Head(sorted)>> \o InsertDesc(Tail(sorted), x)
       ELSE <<x>> \o sorted

RECURSIVE SortFrom(_, _)
SortFrom(items, sorted) ==
  IF items = <<>> THEN sorted
  ELSE SortFrom(Tail(items), InsertDesc(sorted, Head(items)))

\* sorted(items, key=lambda x: x["published"], reverse=True)
sorted_by_published_desc(items) == SortFrom(items, <<>>)

SourceCapReached_off_by_one(count) ==
  config.MAX_ITEMS_PER_SOURCE > 0 /\ count > config.MAX_ITEMS_PER_SOURCE

\* MAX_ITEMS_PER_SOURCE > 0 and source_counts[source] >= MAX_ITEMS_PER_SOURCE
SourceCapReached(count) ==
  config.MAX_ITEMS_PER_SOURCE > 0 /\ count >= config.MAX_ITEMS_PER_SOURCE

PaperCapReached_off_by_one(source, paper_count) ==
  IsPaper(source) /\ paper_count > config.PAPER_LIMIT

\* "Papers" in source and paper_count >= PAPER_LIMIT
PaperCapReached(source, paper_count) ==
  IsPaper(source) /\ paper_count >= config.PAPER_LIMIT

\* node_filter's locals before the loop
FilterStart ==
  [paper_count |-> 0, source_counts |-> <<>>, filtered_items |-> <<>>,
   skipped_papers |-> 0, skipped_source_cap |-> 0]

\* one iteration of node_filter's loop, for item
FilterStep(loc, item) ==
  LET source == item.source
      count  == Get(loc.source_counts, source, 0)
      counted == [loc EXCEPT !.source_counts = SetKey(@, source, count + 1)]
  IN  IF SourceCapReached(count)
      THEN [loc EXCEPT !.skipped_source_cap = @ + 1]
      ELSE IF PaperCapReached(source, loc.paper_count)
      THEN [counted EXCEPT !.skipped_papers = @ + 1]
      ELSE [counted EXCEPT
              !.paper_count = IF IsPaper(source) THEN @ + 1 ELSE @,
              !.filtered_items = Append(@, item)]

RECURSIVE FilterLoop(_, _)
\* for item in sorted(...): ...
FilterLoop(items, loc) ==
  IF items = <<>> THEN loc
  ELSE FilterLoop(Tail(items), FilterStep(loc, Head(items)))

node_filter ==
  /\ pc = "filter"
  /\ LET items == deduplicate(Get(state, "items", <<>>))
         loc   == FilterLoop(sorted_by_published_desc(items), FilterStart)
     IN  /\ deduped' = items
         /\ skipped_source_cap' = loc.skipped_source_cap
         /\ skipped_papers' = loc.skipped_papers
         /\ state' = SetKey(state, "items", loc.filtered_items)
  /\ executed' = Append(executed, "filter")
  /\ pc' = Successor("filter")
  /\ UNCHANGED <<config, FEEDS, llm_requests, news_md, urlVars, collectVars>>

(***************************************************************************)
(* renderer.py: to_markdown, and graph.py: node_render.  The markdown text *)
(* is the list of its lines ("\n".join(lines)); a line is a record of the  *)
(* parts its f-string puts together.                                       *)
(***************************************************************************)
\* config.py CATEGORIES
CATEGORIES == <<"Regulatory & FDA", "Clinical & Research", "Deals & Finance",
                "Company News", "Policy & Politics", "Market Insights">>

\* to_markdown's local category_order before the input's categories are added
category_order_fixed == CATEGORIES \o <<"Other">>

Placeholder == << [kind |-> "placeholder"] >>

\* it.get("category", "Other") for each item
CategoryKeys(its) == [i \in 1..Len(its) |-> Get(its[i], "category", "Other")]

\* the keys of the dict sections, in insertion order
SectionKeys(its) ==
  LET cats == CategoryKeys(its)
  IN  Select(cats, [i \in 1..Len(cats) |-> \A j \in 1..(i-1) : cats[j] # cats[i]])

\* category_order once every key of sections outside it was appended
category_order(its) ==
  LET keys == SectionKeys(its)
  IN  category_order_fixed
        \o Select(keys, [i \in 1..Len(keys) |-> keys[i] \notin Range(category_order_fixed)])

\* the line "- [title](link) -- source" of one item
ItemLine(it) ==
  [kind   |-> "item",
   title  |-> IF "blurb" \in DOMAIN it
              THEN strip(it.title) \o <<" ", "-", " ", "*">> \o it.blurb \o <<"*">>
              ELSE strip(it.title),
   link   |-> it.link,
   source |-> it.source]

\* the lines of one subsection: heading, items in list order, blank line
SectionLines(its, cat) ==
  LET cats == CategoryKeys(its)
      mine == Select(its, [i \in 1..Len(its) |-> cats[i] = cat])
  IN  << [kind |-> "heading", category |-> cat] >>
        \o [i \in 1..Len(mine) |-> ItemLine(mine[i])]
        \o << [kind |-> "blank"] >>

RECURSIVE RenderSections(_, _)
\* for cat in category_order: ...
RenderSections(its, order) ==
  IF order = <<>> THEN <<>>
  ELSE (IF Head(order) \in Range(CategoryKeys(its))
        THEN SectionLines(its, Head(order)) ELSE <<>>)
         \o RenderSections(its, Tail(order))

to_markdown(its) ==
  IF its = <<>> THEN Placeholder
  ELSE << [kind |-> "title"] >> \o RenderSections(its, category_order(its))

\* Path("news.md").write_text raised: the exception leaves node_render and
\* the run
node_render_raises ==
  /\ pc = "render"
  /\ pc' = "raised"
  /\ UNCHANGED <<config, FEEDS, llm_requests, state, outVars, urlVars, filterVars, collectVars>>

node_render ==
  /\ pc = "render"
  /\ LET markdown == to_markdown(Get(state, "items", <<>>))
     IN  /\ news_md' = Append(news_md, markdown)
         /\ state' = SetKey(state, "markdown", markdown)
  /\ executed' = Append(executed, "render")
  /\ pc' = Successor("render")
  /\ UNCHANGED <<config, FEEDS, llm_requests, urlVars, filterVars, collectVars>>

(***************************************************************************)
(* collector.py: _parse_date, _fetch_with_retry, collect_items, and        *)
(* graph.py: node_collect.  Times are whole hours.  A feed entry is a dict *)
(* with the keys feedparser found (title, link, published_parsed,          *)
(* updated_parsed); the time tuples hold UTC.  What a fetch attempt meets  *)
(* (a parsed feed, an exception) is the environment's choice.  Every       *)
(* registry entry has its keys "category" and "source".                    *)
(***************************************************************************)
\* collector.py _DAY = timedelta(days=1)
_DAY == 24

\* the time _now() returns
_now == 100

\* Python's None where a timestamp is expected
None == -1

\* datetime.fromtimestamp(time.mktime(tup), tz=timezone.utc): mktime reads
\* the tuple as local time, config.TZ hours east of UTC
mktime(tup) == tup - config.TZ

_parse_date(entry) ==
  IF Get(entry, "published_parsed", None) # None
  THEN mktime(entry.published_parsed)
  ELSE IF Get(entry, "updated_parsed", None) # None
  THEN mktime(entry.updated_parsed)
  ELSE None

\* hashlib.sha1(s.encode()).hexdigest(): the digest of s (digests of
\* different texts are taken to differ)
sha1(s) == [sha1 |-> s]

RECURSIVE EntryLoop(_, _, _)
\* for e in parsed.entries: ... items.append({...})
EntryLoop(entries, meta, items) ==
  IF entries = <<>> THEN items
  ELSE LET e      == Head(entries)
           cutoff == _now - _DAY
           ts     == _parse_date(e)
           title  == strip(Get(e, "title", <<>>))
           link   == strip(Get(e, "link", <<>>))
       IN  EntryLoop(Tail(entries), meta,
             IF ts = None \/ ts < cutoff \/ title = <<>> \/ link = <<>>
             THEN items
             ELSE Append(items,
                    [id |-> sha1(normalize_url(link)), title |-> title,
                     link |-> link, source |-> meta.source,
                     published |-> ts, category |-> meta.category]))

\* retry_if_exception_type((URLError, socket.timeout, TimeoutError))
retry_if_exception_type(exc) == exc \in {"URLError", "socket.timeout", "TimeoutError"}

\* an attempt budget one larger than the configured one
stop_after_attempt_one_more(attempt) == attempt >= config.RSS_RETRIES + 2

\* stop_after_attempt(RSS_RETRIES + 1), asked after a failed attempt
stop_after_attempt(attempt) == attempt >= config.RSS_RETRIES + 1

\* a bozo test that lets every parsed feed through
skip_bozo_never(parsed) == FALSE

\* if parsed.bozo: continue
skip_bozo(parsed) == parsed.bozo

\* tenacity's retry_state.attempt_number: the number of the attempt under way
attempt_number == Len(failures) + 1

\* fetch_log once the fetch under way has ended with outcome
Logged(outcome) ==
  Append(fetch_log, [attempts |-> attempt_number, outcome |-> outcome])

\* the except clause of the module: FileNotFoundError and JSONDecodeError
\* are caught and FEEDS = {}
feeds_error_caught(file) ==
  file.read = "FileNotFoundError" \/ (file.read = "ok" /\ file.json = "invalid")

\* type(FEEDS) once the module is imported
FEEDS_type ==
  IF feeds_error_caught(config.feeds_json) THEN "dict" ELSE config.feeds_json.json

\* for url, meta in FEEDS.items(): a value that is not a dict has no items()
has_items == FEEDS_type = "dict"

\* meta["category"] and meta["source"] can be read
has_category_and_source(meta) == {"category", "source"} \subseteq DOMAIN meta

\* the loop of collect_items goes on to the next feed
NextFeed == feed_i' = feed_i + 1 /\ failures' = <<>>

\* feedparser.parse returned: the feed is skipped when bozo, else its
\* entries are looped over
fetch_returns(parsed) ==
  /\ pc = "collect" /\ has_items /\ feed_i <= Len(FEEDS)
  /\ has_category_and_source(FEEDS[feed_i])
  /\ fetch_log' = Logged([kind |-> "parsed", bozo |-> parsed.bozo,
                          entries |-> parsed.entries])
  /\ collected' = IF skip_bozo(parsed) THEN collected
                  ELSE EntryLoop(parsed.entries, FEEDS[feed_i], collected)
  /\ NextFeed
  /\ UNCHANGED <<pc, config, FEEDS, llm_requests, state, urlVars, filterVars, outVars>>

\* feedparser.parse raised exc: tenacity calls again when exc is one of the
\* retried types and attempts are left; else exc (or RetryError) reaches
\* the except clause of collect_items, which goes on to the next feed
fetch_raises(exc) ==
  /\ pc = "collect" /\ has_items /\ feed_i <= Len(FEEDS)
  /\ has_category_and_source(FEEDS[feed_i])
  /\ IF retry_if_exception_type(exc) /\ ~stop_after_attempt(attempt_number)
     THEN failures' = Append(failures, exc) /\ UNCHANGED <<feed_i, fetch_log>>
     ELSE fetch_log' = Logged([kind |-> "raised", exc |-> exc]) /\ NextFeed
  /\ UNCHANGED <<pc, config, FEEDS, llm_requests, state, collected, urlVars, filterVars, outVars>>

\* collect_items returns, its locals end with it, and node_collect stores
\* the items
node_collect ==
  /\ pc = "collect" /\ has_items /\ feed_i > Len(FEEDS)
  /\ state' = SetKey(state, "items", collected)
  /\ feed_i' = 1 /\ failures' = <<>> /\ collected' = <<>> /\ fetch_log' = <<>>
  /\ executed' = Append(executed, "collect")
  /\ pc' = Successor("collect")
  /\ UNCHANGED <<config, FEEDS, llm_requests, news_md, urlVars, filterVars>>

\* collect_items raises: FEEDS is not a dict (AttributeError at line 110),
\* or the meta of the feed the loop has come to has no category or no
\* source (KeyError or TypeError at lines 111-112, outside the try); the
\* exception leaves node_collect and graph.invoke
collect_items_raises ==
  /\ pc = "collect"
  /\ \/ ~has_items
     \/ /\ has_items /\ feed_i <= Len(FEEDS) /\ failures = <<>>
        /\ ~has_category_and_source(FEEDS[feed_i])
  /\ pc' = "raised"
  /\ UNCHANGED <<config, FEEDS, llm_requests, state, outVars, urlVars, filterVars, collectVars>>

\* the import of collector.py (lines 30-35) and, when it succeeds, the
\* start of the compiled graph: members is the content of the JSON value
load_feeds(members) ==
  /\ pc = "import"
  /\ LET file == config.feeds_json
     IN  IF feeds_error_caught(file)
         THEN FEEDS' = <<>> /\ pc' = entry_point
         ELSE IF file.read # "ok" \/ file.json \in {"number", "null"}
         \* an OSError other than FileNotFoundError, UnicodeDecodeError, or
         \* the TypeError of len(FEEDS) at line 31: not caught
         THEN UNCHANGED FEEDS /\ pc' = "raised"
         ELSE FEEDS' = members /\ pc' = entry_point
  /\ UNCHANGED <<config, llm_requests, state, outVars, urlVars, filterVars, collectVars>>

(***************************************************************************)
(* graph.py: node_shortify.  What the LLM request of a batch meets (an     *)
(* exception, an empty reply, a reply text) is the environment's choice.   *)
(***************************************************************************)
\* graph.py BATCH_SIZE
BATCH_SIZE == 20

\* what an LLM request meets
Raised == [kind |-> "raised"]
Content(text) == [kind |-> "content", content |-> text]

\* replies to the request of node_shortify: an exception, no text, and a
\* numbered list with a line that is not numbered, a blank line and padding
ShortifyReplies ==
  { Raised, Content(<<>>),
    Content(<<"1", ".", " ", "P", "f", "i", "z", "e", "r", " ", "w", "i", "n", "s", " ", "F", "D", "A", " ", "n", "o", "d", "\n", "o", "k", "\n", "\n", "2", ".", " ", " ", "D", "e", "a", "l", " ", "d", "o", "n", "e", " ", "\n">>) }

\* replies to the request of node_categorize: an exception, no text, a
\* category and a SKIP line, a line without a category and a category in
\* other case
CategorizeReplies ==
  { Raised, Content(<<>>),
    Content(<<"R", "e", "g", "u", "l", "a", "t", "o", "r", "y", " ", "&", " ", "F", "D", "A", "\n", " ", "s", "k", "i", "p", " ", "\n">>),
    Content(<<"n", "/", "a", "\n", "d", "e", "a", "l", "s", " ", "&", " ", "f", "i", "n", "a", "n", "c", "e", " ", "n", "e", "w", "s">>) }

\* re.match(r"^\d+\.", line)
MatchesNumber(line) ==
  LET d == SpanOf(line, Digits, TRUE)
  IN  d >= 1 /\ Len(line) > d /\ line[d + 1] = "."

\* re.sub(r"^\d+\.\s*", "", line), for a line that matches
SubNumber(line) == lstrip(From(line, SpanOf(line, Digits, TRUE) + 2), Whitespace)

\* the list lines node_shortify makes of a reply text
ShortenedLines(content) ==
  LET raw  == split(strip(content), "\n")
      kept == Select(raw, [k \in 1..Len(raw) |->
                             strip(raw[k]) # <<>> /\ MatchesNumber(strip(raw[k]))])
  IN  [k \in 1..Len(kept) |-> SubNumber(strip(kept[k]))]

\* range(0, len(items), BATCH_SIZE) has this many batches
NumBatches(n) == (n + BATCH_SIZE - 1) \div BATCH_SIZE

RECURSIVE ShortifyFrom_takes_empty_text(_, _, _)
\* a loop that takes a line's text for the title even when it is empty
ShortifyFrom_takes_empty_text(items, batch_start, replies) ==
  IF batch_start >= Len(items) THEN items
  ELSE LET reply == replies[(batch_start \div BATCH_SIZE) + 1]
           stop  == Min(batch_start + BATCH_SIZE, Len(items))
           lines == IF reply.kind = "content" /\ reply.content # <<>>
                    THEN ShortenedLines(reply.content) ELSE <<>>
           titled == [i \in 1..Len(items) |->
                        IF /\ i > batch_start /\ i <= stop
                           /\ i - batch_start <= Len(lines)
                        THEN [items[i] EXCEPT !.title = lines[i - batch_start]]
                        ELSE items[i]]
       IN  ShortifyFrom_takes_empty_text(titled, batch_start + BATCH_SIZE, replies)

RECURSIVE ShortifyFrom(_, _, _)
\* the loop over the batches from batch_start (0-based) on; replies[b] is
\* what the request of the b-th batch meets
ShortifyFrom(items, batch_start, replies) ==
  IF batch_start >= Len(items) THEN items
  ELSE LET reply == replies[(batch_start \div BATCH_SIZE) + 1]
           stop  == Min(batch_start + BATCH_SIZE, Len(items))
           lines == IF reply.kind = "content" /\ reply.content # <<>>
                    THEN ShortenedLines(reply.content) ELSE <<>>
           titled == [i \in 1..Len(items) |->
                        IF /\ i > batch_start /\ i <= stop
                           /\ i - batch_start <= Len(lines)
                           /\ lines[i - batch_start] # <<>>
                        THEN [items[i] EXCEPT !.title = lines[i - batch_start]]
                        ELSE items[i]]
       IN  ShortifyFrom(titled, batch_start + BATCH_SIZE, replies)

\* [item["title"] for item in items]
TitlesOf(items) == [i \in 1..Len(items) |-> items[i].title]

\* a loop that an exception ends: no request after the first that raised
ShortifyRequests_until_failure(items, replies) ==
  LET failed == {b \in 1..NumBatches(Len(items)) : replies[b].kind = "raised"}
      last   == IF failed = {} THEN NumBatches(Len(items))
                ELSE CHOOSE b \in failed : \A c \in failed : b <= c
  IN  [b \in 1..last |->
         [node |-> "shortify",
          titles |-> TitlesOf(SubSeq(items, (b - 1) * BATCH_SIZE + 1,
                                     Min(b * BATCH_SIZE, Len(items)))),
          reply |-> replies[b]]]

\* the requests of the loop over the batches: the prompt of a batch lists
\* the titles of items[batch_start : batch_start + BATCH_SIZE]
ShortifyRequests(items, replies) ==
  [b \in 1..NumBatches(Len(items)) |->
     [node |-> "shortify",
      titles |-> TitlesOf(SubSeq(items, (b - 1) * BATCH_SIZE + 1,
                                 Min(b * BATCH_SIZE, Len(items)))),
      reply |-> replies[b]]]

\* no credential, or no items: the state is returned as it is
node_shortify_skips ==
  /\ pc = "shortify"
  /\ ~config.OPENAI_API_KEY \/ Get(state, "items", <<>>) = <<>>
  /\ executed' = Append(executed, "shortify")
  /\ pc' = Successor("shortify")
  /\ UNCHANGED <<config, FEEDS, llm_requests, state, news_md, urlVars, filterVars, collectVars>>

\* OpenAI(api_key=...) raised: the call stands outside the try
node_shortify_raises ==
  /\ pc = "shortify"
  /\ config.OPENAI_API_KEY /\ Get(state, "items", <<>>) # <<>>
  /\ pc' = "raised"
  /\ UNCHANGED <<config, FEEDS, llm_requests, state, outVars, urlVars, filterVars, collectVars>>

\* a credential and items: one request for each batch; replies[b] is what
\* the request of the b-th batch meets
node_shortify(replies) ==
  /\ pc = "shortify"
  /\ config.OPENAI_API_KEY /\ Get(state, "items", <<>>) # <<>>
  /\ state' = SetKey(state, "items", ShortifyFrom(state.items, 0, replies))
  /\ llm_requests' = llm_requests \o ShortifyRequests(state.items, replies)
  /\ executed' = Append(executed, "shortify")
  /\ pc' = Successor("shortify")
  /\ UNCHANGED <<config, FEEDS, news_md, urlVars, filterVars, collectVars>>

(***************************************************************************)
(* graph.py: _extract_keywords, _extract_entities, _run_keyword_dedup,     *)
(* _keyword_categorize, node_categorize                                    *)
(***************************************************************************)
stopwords ==
  { <<"t", "h", "e">>, <<"a">>, <<"a", "n">>, <<"a", "n", "d">>, <<"o", "r">>,
    <<"b", "u", "t">>, <<"i", "n">>, <<"o", "n">>, <<"a", "t">>, <<"t", "o">>,
    <<"f", "o", "r">>, <<"o", "f">>, <<"w", "i", "t", "h">>, <<"b", "y">>,
    <<"f", "r", "o", "m">>, <<"a", "s">>, <<"i", "s">>, <<"w", "a", "s">>,
    <<"a", "r", "e">>, <<"w", "e", "r", "e">>, <<"b", "e", "e", "n">>,
    <<"b", "e">>, <<"h", "a", "v", "e">>, <<"h", "a", "s">>, <<"h", "a", "d">>,
    <<"d", "o">>, <<"d", "o", "e", "s">>, <<"d", "i", "d">>,
    <<"w", "i", "l", "l">>, <<"w", "o", "u", "l", "d">>,
    <<"c", "o", "u", "l", "d">>, <<"s", "h", "o", "u", "l", "d">>,
    <<"m", "a", "y">>, <<"m", "i", "g", "h", "t">>, <<"m", "u", "s", "t">>,
    <<"s", "h", "a", "l", "l">>, <<"c", "a", "n">>, <<"n", "e", "e", "d">>,
    <<"i", "t", "s">>, <<"i", "t">>, <<"t", "h", "i", "s">>,
    <<"t", "h", "a", "t">>, <<"t", "h", "e", "s", "e">>,
    <<"t", "h", "o", "s", "e">>, <<"n", "e", "w">>, <<"s", "a", "y", "s">>,
    <<"s", "a", "i", "d">> }

\* config.py COMPANY_NAMES
COMPANY_NAMES ==
  << <<"p", "f", "i", "z", "e", "r">>, <<"m", "o", "d", "e", "r", "n", "a">>,
    <<"g", "i", "l", "e", "a", "d">>,
    <<"r", "e", "g", "e", "n", "e", "r", "o", "n">>,
    <<"a", "m", "g", "e", "n">>, <<"b", "i", "o", "g", "e", "n">>,
    <<"v", "e", "r", "t", "e", "x">>, <<"a", "b", "b", "v", "i", "e">>,
    <<"n", "o", "v", "a", "r", "t", "i", "s">>, <<"r", "o", "c", "h", "e">>,
    <<"m", "e", "r", "c", "k">>, <<"b", "m", "s">>,
    <<"b", "r", "i", "s", "t", "o", "l", "-", "m", "y", "e", "r", "s">>,
    <<"a", "s", "t", "r", "a", "z", "e", "n", "e", "c", "a">>,
    <<"s", "a", "n", "o", "f", "i">>, <<"g", "s", "k">>,
    <<"g", "l", "a", "x", "o", "s", "m", "i", "t", "h", "k", "l", "i", "n", "e">>,
    <<"l", "i", "l", "l", "y">>,
    <<"e", "l", "i", " ", "l", "i", "l", "l", "y">>,
    <<"j", "o", "h", "n", "s", "o", "n", " ", "&", " ", "j", "o", "h", "n", "s", "o", "n">>,
    <<"j", "&", "j">>, <<"t", "a", "k", "e", "d", "a">>,
    <<"b", "a", "y", "e", "r">>,
    <<"n", "o", "v", "o", " ", "n", "o", "r", "d", "i", "s", "k">>,
    <<"i", "l", "l", "u", "m", "i", "n", "a">>,
    <<"g", "e", "n", "e", "n", "t", "e", "c", "h">> >>

company_suffixes ==
  { <<"t", "h", "e", "r", "a", "p", "e", "u", "t", "i", "c", "s">>,
    <<"p", "h", "a", "r", "m", "a">>,
    <<"p", "h", "a", "r", "m", "a", "c", "e", "u", "t", "i", "c", "a", "l", "s">>,
    <<"b", "i", "o", "t", "e", "c", "h">>,
    <<"b", "i", "o", "s", "c", "i", "e", "n", "c", "e", "s">>,
    <<"s", "c", "i", "e", "n", "c", "e", "s">>,
    <<"g", "e", "n", "o", "m", "i", "c", "s">>,
    <<"o", "n", "c", "o", "l", "o", "g", "y">>,
    <<"m", "e", "d", "i", "c", "i", "n", "e">>,
    <<"h", "e", "a", "l", "t", "h">>, <<"b", "i", "o">> }

\* the words _extract_entities does not take for names
common_words ==
  { <<"t", "h", "e">>, <<"a", "n", "d">>, <<"f", "o", "r">>,
    <<"w", "i", "t", "h">>, <<"f", "r", "o", "m">>, <<"i", "n", "t", "o">>,
    <<"a", "f", "t", "e", "r">>, <<"p", "h", "a", "s", "e">>,
    <<"n", "e", "w">>, <<"f", "i", "r", "s", "t">>,
    <<"t", "r", "i", "a", "l">>, <<"d", "r", "u", "g">>,
    <<"d", "a", "t", "a">>, <<"s", "t", "u", "d", "y">>,
    <<"c", "a", "n", "c", "e", "r">>,
    <<"t", "r", "e", "a", "t", "m", "e", "n", "t">>,
    <<"t", "h", "e", "r", "a", "p", "y">>,
    <<"p", "a", "t", "i", "e", "n", "t", "s">>,
    <<"d", "i", "s", "e", "a", "s", "e">>, <<"h", "e", "a", "l", "t", "h">> }

\* the entities the second pass passes over
generic_entities == { <<"f", "d", "a">>, <<"n", "i", "h">>, <<"c", "d", "c">>, <<"e", "m", "a">> }

\* re.findall(r"\b\w+\b", s): the maximal runs of word characters
RECURSIVE findall_words(_)
findall_words(s) ==
  LET t == From(s, SpanOf(s, WordChars, FALSE) + 1)
      n == SpanOf(t, WordChars, TRUE)
  IN  IF t = <<>> THEN <<>>
      ELSE <<SubSeq(t, 1, n)>> \o findall_words(From(t, n + 1))

\* the sorted list of the title's words longer than three letters that are
\* not stopwords
_extract_keywords(title) ==
  LET words == findall_words(lower(title))
  IN  sorted_set({w \in Range(words) : Len(w) > 3 /\ w \notin stopwords})

\* "_".join(keywords[:5])
Fingerprint(keywords) == join(SubSeq(keywords, 1, Min(5, Len(keywords))), <<"_">>)

_extract_entities(title) ==
  LET title_lower == lower(title)
      words == split_whitespace(title)
      tail_chars == {",", "'", "s"}
      word_lower(i) == rstrip(lower(words[i]), tail_chars)
      prev_word(i) == lower(rstrip(words[i - 1], tail_chars))
      clean(i) == lstrip(rstrip(words[i], Punctuation), Punctuation)
  IN  {COMPANY_NAMES[k] : k \in {k \in 1..Len(COMPANY_NAMES) :
                                   contains(title_lower, COMPANY_NAMES[k])}}
      \cup
      {prev_word(i) \o <<"_">> \o word_lower(i) :
         i \in {i \in 2..Len(words) :
                  /\ word_lower(i) \in company_suffixes
                  /\ \/ prev_word(i) # <<>> /\ IsUpper(prev_word(i)[1])
                     \/ Len(prev_word(i)) > 2}}
      \cup
      {lower(clean(i)) :
         i \in {i \in 1..Len(words) :
                  /\ Len(clean(i)) >= 3
                  /\ \/ isupper(clean(i)) /\ Len(clean(i)) <= 5
                     \/ IsUpper(clean(i)[1]) /\ lower(clean(i)) \notin common_words}}

\* item["skip"] = True; item["skip_reason"] = reason, for the i-th item
Skip(items, i, reason) ==
  [items EXCEPT ![i] = SetKey(SetKey(@, "skip", TRUE), "skip_reason", reason)]

RECURSIVE KeywordPass_marks_empty_fingerprint(_, _, _)
\* a first loop that takes the empty fingerprint for a fingerprint
KeywordPass_marks_empty_fingerprint(items, i, seen_keywords) ==
  IF i > Len(items) THEN items
  ELSE IF Get(items[i], "skip", FALSE)
  THEN KeywordPass_marks_empty_fingerprint(items, i + 1, seen_keywords)
  ELSE LET fingerprint == Fingerprint(_extract_keywords(items[i].title))
       IN  IF fingerprint \in DOMAIN seen_keywords
           THEN KeywordPass_marks_empty_fingerprint(
                  Skip(items, i, [duplicate |-> "keyword", of |-> seen_keywords[fingerprint]]),
                  i + 1, seen_keywords)
           ELSE KeywordPass_marks_empty_fingerprint(
                  items, i + 1, SetKey(seen_keywords, fingerprint, i - 1))

RECURSIVE KeywordPass(_, _, _)
\* the first loop of _run_keyword_dedup from the i-th item on; seen_keywords
\* maps a fingerprint to the (0-based) index of the first item that has it
KeywordPass(items, i, seen_keywords) ==
  IF i > Len(items) THEN items
  ELSE IF Get(items[i], "skip", FALSE) THEN KeywordPass(items, i + 1, seen_keywords)
  ELSE LET fingerprint == Fingerprint(_extract_keywords(items[i].title))
       IN  IF fingerprint # <<>> /\ fingerprint \in DOMAIN seen_keywords
           THEN KeywordPass(
                  Skip(items, i, [duplicate |-> "keyword", of |-> seen_keywords[fingerprint]]),
                  i + 1, seen_keywords)
           ELSE IF fingerprint # <<>>
           THEN KeywordPass(items, i + 1, SetKey(seen_keywords, fingerprint, i - 1))
           ELSE KeywordPass(items, i + 1, seen_keywords)

RECURSIVE EntityLoop(_, _, _, _)
\* for entity in entities, for the i-th item; entities is the list of the
\* set's elements in the order the iteration yields them
EntityLoop(items, i, entities, seen_entities) ==
  IF entities = <<>> THEN [items |-> items, seen_entities |-> seen_entities]
  ELSE LET entity == Head(entities)
       IN  IF entity \in generic_entities
           THEN EntityLoop(items, i, Tail(entities), seen_entities)
           ELSE IF entity \in DOMAIN seen_entities
           THEN LET prev_idx == seen_entities[entity]
                    shared == Range(_extract_keywords(items[prev_idx + 1].title))
                                \cap Range(_extract_keywords(items[i].title))
                IN  IF Cardinality(shared) >= 2
                    THEN [items |-> Skip(items, i, [duplicate |-> "entity",
                                                    entity |-> entity, of |-> prev_idx]),
                          seen_entities |-> seen_entities]
                    ELSE EntityLoop(items, i, Tail(entities), seen_entities)
           ELSE EntityLoop(items, i, Tail(entities), SetKey(seen_entities, entity, i - 1))

RECURSIVE EntityPass(_, _, _, _)
\* the second loop of _run_keyword_dedup from the i-th item on
EntityPass(items, i, seen_entities, orders) ==
  IF i > Len(items) THEN items
  ELSE IF Get(items[i], "skip", FALSE) THEN EntityPass(items, i + 1, seen_entities, orders)
  ELSE LET done == EntityLoop(items, i, orders[i], seen_entities)
       IN  EntityPass(done.items, i + 1, done.seen_entities, orders)

\* a detector that marks and does not remove
_run_keyword_dedup_keeps_marked(items, orders) ==
  EntityPass(KeywordPass(items, 1, <<>>), 1, <<>>, orders)

\* orders[i] is the order in which the set _extract_entities(items[i]) is
\* iterated
_run_keyword_dedup(items, orders) ==
  LET marked == EntityPass(KeywordPass(items, 1, <<>>), 1, <<>>, orders)
  IN  Select(marked, [i \in 1..Len(marked) |-> ~Get(marked[i], "skip", FALSE)])

\* the orders in which a set can be iterated
Perms(S) ==
  {p \in [1..Cardinality(S) -> S] :
     \A a, b \in 1..Cardinality(S) : a # b => p[a] # p[b]}

RECURSIVE EntityOrders(_)
\* the iteration orders of the entity sets of the items: the order of a set
\* of strings depends on the hash seed of the process
EntityOrders(items) ==
  IF items = <<>> THEN {<<>>}
  ELSE {<<p>> \o rest : p \in Perms(_extract_entities(Head(items).title)),
                        rest \in EntityOrders(Tail(items))}

\* the word lists of _keyword_categorize, in the order they are tried
keyword_rules == <<
  [category |-> "Regulatory & FDA",
   words |-> { <<"f", "d", "a">>, <<"a", "p", "p", "r", "o", "v", "e">>,
    <<"r", "e", "j", "e", "c", "t">>, <<"e", "m", "a">>,
    <<"r", "e", "g", "u", "l", "a", "t", "o", "r", "y">> }],
  [category |-> "Clinical & Research",
   words |-> { <<"t", "r", "i", "a", "l">>, <<"p", "h", "a", "s", "e">>,
    <<"s", "t", "u", "d", "y">>, <<"e", "f", "f", "i", "c", "a", "c", "y">>,
    <<"t", "h", "e", "r", "a", "p", "y">>,
    <<"r", "e", "s", "e", "a", "r", "c", "h">> }],
  [category |-> "Deals & Finance",
   words |-> { <<"p", "a", "r", "t", "n", "e", "r">>, <<"d", "e", "a", "l">>,
    <<"r", "a", "i", "s", "e">>, <<"f", "u", "n", "d", "i", "n", "g">>,
    <<"$">>, <<"a", "c", "q", "u", "i", "s", "i", "t", "i", "o", "n">>,
    <<"i", "p", "o">>, <<"m", "e", "r", "g", "e", "r">> }],
  [category |-> "Company News",
   words |-> { <<"l", "a", "y", "o", "f", "f">>, <<"c", "u", "t", "s">>,
    <<"c", "e", "o">>, <<"e", "x", "e", "c", "u", "t", "i", "v", "e">>,
    <<"h", "i", "r", "e">>, <<"a", "p", "p", "o", "i", "n", "t">> }],
  [category |-> "Policy & Politics",
   words |-> { <<"t", "r", "u", "m", "p">>, <<"c", "o", "n", "g", "r", "e", "s", "s">>,
    <<"m", "e", "d", "i", "c", "a", "r", "e">>,
    <<"m", "e", "d", "i", "c", "a", "i", "d">>,
    <<"p", "o", "l", "i", "c", "y">>,
    <<"l", "e", "g", "i", "s", "l", "a", "t", "i", "o", "n">> }],
  [category |-> "Market Insights",
   words |-> { <<"m", "a", "r", "k", "e", "t">>,
    <<"s", "p", "e", "n", "d", "i", "n", "g">>,
    <<"f", "o", "r", "e", "c", "a", "s", "t">>, <<"t", "r", "e", "n", "d">>,
    <<"b", "i", "l", "l", "i", "o", "n">>,
    <<"o", "u", "t", "l", "o", "o", "k">> }] >>

_keyword_categorize(title) ==
  LET title_lower == lower(title)
      hits == {k \in 1..Len(keyword_rules) :
                 \E w \in keyword_rules[k].words : contains(title_lower, w)}
  IN  IF hits # {}
      THEN keyword_rules[CHOOSE k \in hits : \A j \in hits : k <= j].category
      ELSE IF \E k \in 1..Len(COMPANY_NAMES) : contains(title_lower, COMPANY_NAMES[k])
      THEN "Company News"
      ELSE "Company News"

\* a loop that leaves each item the category it came with
KeywordCategorized_keeps_category(items) == items

\* for item in items: item["category"] = _keyword_categorize(item["title"])
KeywordCategorized(items) ==
  [i \in 1..Len(items) |->
     SetKey(items[i], "category", _keyword_categorize(items[i].title))]

\* the characters of the names in CATEGORIES
CategoryChars == <<
  <<"R", "e", "g", "u", "l", "a", "t", "o", "r", "y", " ", "&", " ", "F", "D", "A">>,
  <<"C", "l", "i", "n", "i", "c", "a", "l", " ", "&", " ", "R", "e", "s", "e", "a", "r", "c", "h">>,
  <<"D", "e", "a", "l", "s", " ", "&", " ", "F", "i", "n", "a", "n", "c", "e">>,
  <<"C", "o", "m", "p", "a", "n", "y", " ", "N", "e", "w", "s">>,
  <<"P", "o", "l", "i", "c", "y", " ", "&", " ", "P", "o", "l", "i", "t", "i", "c", "s">>,
  <<"M", "a", "r", "k", "e", "t", " ", "I", "n", "s", "i", "g", "h", "t", "s">> >>

\* the category names compared as they are written
MatchesCategory_case_sensitive(line, k) == contains(line, CategoryChars[k])

\* valid_cat.lower() in line.lower()
MatchesCategory(line, k) == contains(lower(line), lower(CategoryChars[k]))

RECURSIVE LLMPass(_, _, _)
\* for i, line in enumerate(lines): ..., from the i-th line on
LLMPass(items, lines, i) ==
  IF i > Len(lines) \/ i > Len(items) THEN items
  ELSE IF contains(upper(lines[i]), <<"S", "K", "I", "P">>)
  THEN LLMPass(Skip(items, i, [duplicate |-> "llm"]), lines, i + 1)
  ELSE LET found == {k \in 1..Len(CATEGORIES) : MatchesCategory(lines[i], k)}
           category == IF found # {}
                       THEN CATEGORIES[CHOOSE k \in found : \A j \in found : k <= j]
                       ELSE _keyword_categorize(items[i].title)
       IN  LLMPass([items EXCEPT ![i] = SetKey(@, "category", category)], lines, i + 1)

\* the list lines node_categorize makes of a reply text
CategoryLines(content) ==
  LET raw == split(strip(content), "\n")
      kept == Select(raw, [k \in 1..Len(raw) |-> strip(raw[k]) # <<>>])
  IN  [k \in 1..Len(kept) |-> strip(kept[k])]

\* no items: the state is returned as it is
node_categorize_no_items ==
  /\ pc = "categorize"
  /\ Get(state, "items", <<>>) = <<>>
  /\ executed' = Append(executed, "categorize")
  /\ pc' = Successor("categorize")
  /\ UNCHANGED <<config, FEEDS, llm_requests, state, news_md, urlVars, filterVars, collectVars>>

\* no credential: keyword categories, then the duplicate detector
node_categorize_keywords ==
  /\ pc = "categorize"
  /\ Get(state, "items", <<>>) # <<>>
  /\ ~config.OPENAI_API_KEY
  /\ \E orders \in EntityOrders(state.items) :
       state' = SetKey(state, "items",
                       _run_keyword_dedup(KeywordCategorized(state.items), orders))
  /\ executed' = Append(executed, "categorize")
  /\ pc' = Successor("categorize")
  /\ UNCHANGED <<config, FEEDS, llm_requests, news_md, urlVars, filterVars, collectVars>>

\* with a credential: the request raised (keyword categories in the except
\* clause), or its reply is empty (keyword categories), or the reply's lines
\* are read; the duplicate detector runs in each case
node_categorize(reply) ==
  /\ pc = "categorize"
  /\ Get(state, "items", <<>>) # <<>>
  /\ config.OPENAI_API_KEY
  /\ \E orders \in EntityOrders(state.items) :
       \E categorized \in
            { IF reply.kind = "raised" \/ reply.content = <<>>
              THEN KeywordCategorized(state.items)
              ELSE LLMPass(state.items, CategoryLines(reply.content), 1) } :
         /\ state' = SetKey(state, "items", _run_keyword_dedup(categorized, orders))
         \* the exception may be that of OpenAI(...), before the request
         /\ \E issued \in (IF reply.kind = "raised" THEN BOOLEAN ELSE {TRUE}) :
              llm_requests' =
                IF issued
                THEN Append(llm_requests, [node |-> "categorize",
                                           titles |-> TitlesOf(state.items),
                                           reply |-> reply])
                ELSE llm_requests
  /\ executed' = Append(executed, "categorize")
  /\ pc' = Successor("categorize")
  /\ UNCHANGED <<config, FEEDS, news_md, urlVars, filterVars, collectVars>>

(***************************************************************************)
(* Inputs of node_filter: every list of at most MaxItems items, up to the  *)
(* names of the ids and the spacing of the timestamps                      *)
(***************************************************************************)
MaxItems == 3
MaxCap == 1

\* source labels: two that contain "Papers" and one that does not
NatPapers == <<"N", "a", "t", " ", "P", "a", "p", "e", "r", "s">>
PapersX == <<"P", "a", "p", "e", "r", "s", "X">>
Newspapers == <<"n", "e", "w", "s", "p", "a", "p", "e", "r", "s">>
Sources == {NatPapers, PapersX, Newspapers}

\* id lists in which a new id is the least one not used yet
IdLists(n) ==
  { f \in [1..n -> 1..n] :
      \A i \in 1..n : \A v \in 1..(f[i] - 1) : \E j \in 1..(i-1) : f[j] = v }

\* timestamp lists that use the days 1..k for some k
DayLists(n) ==
  { f \in [1..n -> 1..n] :
      \A i \in 1..n : \A v \in 1..(f[i] - 1) : \E j \in 1..n : f[j] = v }

\* source lists in which PapersX occurs only after NatPapers (the two
\* labels are interchangeable: the code compares labels for equality and
\* tests them for "Papers")
SourceLists(n) ==
  { f \in [1..n -> Sources] :
      \A i \in 1..n : f[i] = PapersX => \E j \in 1..(i-1) : f[j] = NatPapers }

Titles == << <<"t", "1">>, <<"t", "2">>, <<"t", "3">>, <<"t", "4">>, <<"t", "5">> >>

Links == << <<"l", "1">>, <<"l", "2">>, <<"l", "3">>, <<"l", "4">>, <<"l", "5">> >>

\* an item as collect_items builds it
Item(id, title, link, source, published, category) ==
  [id |-> id, title |-> title, link |-> link, source |-> source,
   published |-> published, category |-> category]

InitFilter ==
  /\ pc = "filter"
  /\ \E cap \in 0..MaxCap, limit \in 0..MaxCap :
       config = [DefaultConfig EXCEPT !.MAX_ITEMS_PER_SOURCE = cap,
                                      !.PAPER_LIMIT = limit]
  /\ \E n \in 0..MaxItems :
       \E ids \in IdLists(n), days \in DayLists(n), srcs \in SourceLists(n) :
         state = [items |-> [i \in 1..n |->
                     Item(ids[i], Titles[i], Links[i], srcs[i], days[i], "Company News")]]
  /\ FEEDS = <<>>
  /\ IdleUrl /\ IdleFilter /\ IdleCollect /\ IdleOut

NextFilter == node_filter

SpecFilter == InitFilter /\ [][NextFilter]_vars

(***************************************************************************)
(* Inputs of node_render: lists of at most MaxItems items in any order,    *)
(* with categories inside and outside the taxonomy, or none                *)
(***************************************************************************)
NoCategory == "<no category>"
CategoryChoices == {"Regulatory & FDA", "Company News", "Other", "Unknown Category", NoCategory}
RenderSources == {NatPapers, Newspapers}

\* a title with blanks around it
Padded(title) == <<" ">> \o title \o <<" ">>

\* an item as it reaches the renderer; without the key "category" when cat
\* is NoCategory
RenderItem(i, source, published, cat) ==
  IF cat = NoCategory
  THEN [id |-> i, title |-> Padded(Titles[i]), link |-> Links[i], source |-> source,
        published |-> published]
  ELSE Item(i, Padded(Titles[i]), Links[i], source, published, cat)

InitRender ==
  /\ pc = "render"
  /\ config = DefaultConfig
  /\ FEEDS = <<>>
  /\ \E n \in 0..MaxItems :
       \E days \in DayLists(n), srcs \in [1..n -> RenderSources],
          cats \in [1..n -> CategoryChoices] :
         state = [items |-> [i \in 1..n |-> RenderItem(i, srcs[i], days[i], cats[i])]]
  /\ IdleUrl /\ IdleFilter /\ IdleCollect /\ IdleOut

NextRender == node_render \/ node_render_raises

SpecRender == InitRender /\ [][NextRender]_vars

(***************************************************************************)
(* Inputs of collect_items: registries of at most MaxFeeds feeds, retry    *)
(* budgets of at most MaxRetries retries, and what the feeds deliver       *)
(***************************************************************************)
MaxFeeds == 2
MaxRetries == 2

FeedSources == <<NatPapers, Newspapers, PapersX>>
FeedCategories == <<"Clinical & Research", "Company News", "Clinical & Research">>

\* the i-th feed of the registry, as FEEDS.items() yields it
Feed(i) ==
  [url |-> <<"f", "e", "e", "d", "/">> \o [k \in 1..i |-> "x"],
   source |-> FeedSources[((i - 1) % 3) + 1],
   category |-> FeedCategories[((i - 1) % 3) + 1]]

Registries == { [i \in 1..n |-> Feed(i)] : n \in 0..MaxFeeds }

LinkA == <<"h", "t", "t", "p", "s", ":", "/", "/", "w", "w", "w", ".", "e", ".", "c", "o", "/", "a", "/">>
LinkATracked == <<"h", "t", "t", "p", "s", ":", "/", "/", "e", ".", "c", "o", "/", "a", "?", "u", "t", "m", "_", "s", "o", "u", "r", "c", "e", "=", "x">>
LinkB == <<"h", "t", "t", "p", "s", ":", "/", "/", "e", ".", "c", "o", "/", "b">>

\* entries: fresh; fresh with a tracking link to the same page and an older
\* update time; older than the cutoff; without a date; with a blank title;
\* without a link; dated by its update time only, exactly at the cutoff
EntryFresh == [title |-> <<"P", "f", "i", "z", "e", "r", " ", "d", "r", "u", "g", " ", "w", "i", "n", "s", " ", "F", "D", "A", " ", "a", "p", "p", "r", "o", "v", "a", "l">>,
               link |-> LinkA,
               published_parsed |-> 90]
EntryTracked == [title |-> <<"M", "o", "d", "e", "r", "n", "a", " ", "r", "a", "i", "s", "e", "s", " ", "f", "u", "n", "d", "i", "n", "g">>,
                 link |-> LinkATracked,
                 published_parsed |-> 95, updated_parsed |-> 60]
EntryStale == [title |-> <<"O", "l", "d">>, link |-> LinkB, published_parsed |-> 70]
EntryUndated == [title |-> <<"U", "n", "d", "a", "t", "e", "d">>, link |-> LinkB]
EntryBlank == [title |-> <<" ">>, link |-> LinkB, published_parsed |-> 90]
EntryNoLink == [title |-> <<"T", "r", "i", "a", "l", " ", "d", "a", "t", "a">>,
                published_parsed |-> 90]
EntryUpdated == [title |-> <<" ", "F", "D", "A", " ", "a", "p", "p", "r", "o", "v", "a", "l", ":", " ", "P", "f", "i", "z", "e", "r", " ", "d", "r", "u", "g", " ", "w", "i", "n", "s", " ">>,
                 link |-> LinkB,
                 updated_parsed |-> 76]

EntryLists == { <<>>, <<EntryFresh>>, <<EntryStale, EntryTracked>>,
                <<EntryUndated, EntryBlank, EntryNoLink, EntryUpdated>> }

\* what feedparser.parse may return: a well-formed feed, or a bozo one with
\* the entries it could still read
ParsedChoices ==
  { [bozo |-> FALSE, entries |-> l] : l \in EntryLists }
    \cup { [bozo |-> TRUE, entries |-> <<EntryFresh>>] }

\* what feedparser.parse may raise
Exceptions == {"URLError", "TimeoutError", "ValueError"}

TimeZones == {0, 5}

InitCollect ==
  /\ pc = entry_point
  /\ \E retries \in 0..MaxRetries, tz \in TimeZones :
       config = [DefaultConfig EXCEPT !.RSS_RETRIES = retries, !.TZ = tz]
  /\ FEEDS \in Registries
  /\ state = <<>>
  /\ IdleUrl /\ IdleFilter /\ IdleCollect /\ IdleOut

NextCollect ==
  \/ \E parsed \in ParsedChoices : fetch_returns(parsed)
  \/ \E exc \in Exceptions : fetch_raises(exc)
  \/ node_collect

SpecCollect == InitCollect /\ [][NextCollect]_vars

\* collect_items is a loop of blocking calls: a step that can be taken is taken
FairCollect == SpecCollect /\ WF_vars(NextCollect)

(***************************************************************************)
(* The run of the compiled graph, graph.invoke({}) of main.py: the inputs  *)
(* of collect_items, with or without an LLM credential                     *)
(***************************************************************************)
Init ==
  /\ pc = entry_point
  /\ \E retries \in 0..MaxRetries, tz \in TimeZones, key \in BOOLEAN :
       config = [DefaultConfig EXCEPT !.RSS_RETRIES = retries, !.TZ = tz,
                                      !.OPENAI_API_KEY = key]
  /\ FEEDS \in Registries
  /\ state = <<>>
  /\ IdleUrl /\ IdleFilter /\ IdleCollect /\ IdleOut

Next ==
  \/ \E parsed \in ParsedChoices : fetch_returns(parsed)
  \/ \E exc \in Exceptions : fetch_raises(exc)
  \/ node_collect
  \/ node_filter
  \/ node_shortify_skips
  \/ node_shortify_raises
  \/ \E replies \in [1..NumBatches(Len(Get(state, "items", <<>>))) -> ShortifyReplies] :
       node_shortify(replies)
  \/ node_categorize_no_items
  \/ node_categorize_keywords
  \/ \E reply \in CategorizeReplies : node_categorize(reply)
  \/ node_render
  \/ node_render_raises

Spec == Init /\ [][Next]_vars

(***************************************************************************)
(* The process from the import of collector.py on: feeds.json is whatever  *)
(* the file system holds                                                   *)
(***************************************************************************)
\* feeds.json: missing, unreadable, not UTF-8, or read; when read: invalid
\* JSON, or a JSON value of one of these types
FeedsFiles ==
  {FeedsFile(r, "unread") : r \in {"FileNotFoundError", "PermissionError", "UnicodeDecodeError"}}
  \cup {FeedsFile("ok", j) : j \in {"invalid", "dict", "list", "str", "number", "null"}}

\* metas that are not an object with category and source: no category, no
\* source, neither (or not an object at all)
BadMetas(i) ==
  { [url |-> Feed(i).url, source |-> Feed(i).source],
    [url |-> Feed(i).url, category |-> Feed(i).category],
    [url |-> Feed(i).url] }

\* JSON objects with one such meta among well-formed ones
MalformedRegistries ==
  { [i \in 1..n |-> IF i = k THEN bad ELSE Feed(i)] :
      <<n, k, bad>> \in { t \in (1..MaxFeeds) \X (1..MaxFeeds) \X UNION {BadMetas(i) : i \in 1..MaxFeeds} :
                           t[2] <= t[1] /\ t[3] \in BadMetas(t[2]) } }

\* the content of a JSON value of the type json
Members(json) ==
  CASE json = "dict" -> Registries \cup MalformedRegistries
    [] json = "list" -> {<<>>, <<[category |-> Feed(1).category, source |-> Feed(1).source]>>}
    [] json = "str"  -> {<<>>, Feed(1).url}
    [] OTHER         -> {<<>>}

InitLoad ==
  /\ pc = "import"
  /\ \E file \in FeedsFiles, key \in BOOLEAN :
       config = [DefaultConfig EXCEPT !.feeds_json = file, !.OPENAI_API_KEY = key]
  /\ FEEDS = <<>>
  /\ state = <<>>
  /\ IdleUrl /\ IdleFilter /\ IdleCollect /\ IdleOut

NextLoad ==
  \/ \E members \in Members(config.feeds_json.json) : load_feeds(members)
  \/ collect_items_raises
  \/ Next

SpecLoad == InitLoad /\ [][NextLoad]_vars

(***************************************************************************)
(* node_categorize on its own: the item lists it may be handed and the     *)
(* replies its request may meet                                            *)
(***************************************************************************)
MaxCatItems == 3

\* titles the keyword rules file under Regulatory & FDA, under Deals &
\* Finance, and under no rule
CatTitles ==
  { <<"P", "f", "i", "z", "e", "r", " ", "d", "r", "u", "g", " ", "w", "i", "n", "s", " ", "F", "D", "A", " ", "a", "p", "p", "r", "o", "v", "a", "l">>,
    <<"M", "o", "d", "e", "r", "n", "a", " ", "r", "a", "i", "s", "e", "s", " ", "f", "u", "n", "d", "i", "n", "g">>,
    <<"Q", "u", "i", "e", "t", " ", "w", "e", "e", "k">> }

\* the i-th item of a list, as collect_items builds it from a feed the
\* registry files under Policy & Politics
CatItem(i, title) ==
  [id |-> sha1(LinkB \o [k \in 1..i |-> "x"]), title |-> title,
   link |-> LinkB \o [k \in 1..i |-> "x"], source |-> Newspapers,
   published |-> 90, category |-> "Policy & Politics"]

CatItemLists ==
  UNION { { [i \in 1..n |-> CatItem(i, titles[i])] : titles \in [1..n -> CatTitles] } :
          n \in 0..MaxCatItems }

\* further replies: only blanks; and four lines, the first with a category
\* and a skip, the second with two categories, the third with none
MoreCategorizeReplies ==
  { Content(<<" ", "\n", " ">>),
    Content(<<"C", "o", "m", "p", "a", "n", "y", " ", "N", "e", "w", "s", " ", "(", "s", "k", "i", "p", ")", "\n", "M", "a", "r", "k", "e", "t", " ", "I", "n", "s", "i", "g", "h", "t", "s", ",", " ", "D", "e", "a", "l", "s", " ", "&", " ", "F", "i", "n", "a", "n", "c", "e", "\n", "o", "t", "h", "e", "r", "\n", "e", "x", "t", "r", "a">>) }

InitCategorize ==
  /\ pc = "categorize"
  /\ \E key \in BOOLEAN : config = [DefaultConfig EXCEPT !.OPENAI_API_KEY = key]
  /\ FEEDS = <<>>
  /\ \E items \in CatItemLists : state = [items |-> items]
  /\ IdleUrl /\ IdleFilter /\ IdleCollect
  /\ news_md = <<>> /\ llm_requests = <<>>
  /\ executed = <<"collect", "filter", "shortify">>

NextCategorize ==
  \/ node_categorize_no_items
  \/ node_categorize_keywords
  \/ \E reply \in CategorizeReplies \cup MoreCategorizeReplies : node_categorize(reply)

SpecCategorize == InitCategorize /\ [][NextCategorize]_vars

(***************************************************************************)
(* node_shortify on its own: lists long enough for three batches, and what *)
(* the request of each batch may meet                                      *)
(***************************************************************************)
MaxShortifyItems == 41

\* the i-th item of a list: the titles differ from item to item
ShortItem(i) ==
  [id |-> sha1(<<i>>),
   title |-> <<"H", LowerCase[((i - 1) % 26) + 1], LowerCase[((i - 1) \div 26) + 1]>>,
   link |-> LinkB, source |-> Newspapers, published |-> 90,
   category |-> "Company News"]

\* a further reply: a line numbered 7 in the first place, a numbered line
\* with no text, a line without a number, and a padded line numbered 9
MoreShortifyReplies ==
  { Content(<<"7", ".", " ", "L", "a", "t", "e", "\n", "2", ".", "\n", "x", "\n", " ", "9", ".", " ", " ", "T", "h", "i", "r", "d", " ">>) }

InitShortify ==
  /\ pc = "shortify"
  /\ \E key \in BOOLEAN : config = [DefaultConfig EXCEPT !.OPENAI_API_KEY = key]
  /\ FEEDS = <<>>
  /\ \E n \in 0..MaxShortifyItems : state = [items |-> [i \in 1..n |-> ShortItem(i)]]
  /\ IdleUrl /\ IdleFilter /\ IdleCollect
  /\ news_md = <<>> /\ llm_requests = <<>>
  /\ executed = <<"collect", "filter">>

NextShortify ==
  \/ node_shortify_skips
  \/ node_shortify_raises
  \/ \E replies \in [1..NumBatches(Len(Get(state, "items", <<>>))) ->
                        ShortifyReplies \cup MoreShortifyReplies] :
       node_shortify(replies)

SpecShortify == InitShortify /\ [][NextShortify]_vars

(***************************************************************************)
(* _run_keyword_dedup on its own: the lists it may be handed, and for each *)
(* list the orders in which the entity sets of its items may be iterated.  *)
(* The call's locals are kept in the fields of state: the list it was      *)
(* handed, the list after the first loop, the list after the second loop   *)
(* and the list it returns.                                                *)
(***************************************************************************)
MaxDedupItems == 3

\* a title; one with a second company and the keywords of the first; one
\* with the second company only; the first title's keywords in another
\* order; one with the first company and no keywords
DedupTitles ==
  { <<"B", "M", "S", " ", "d", "r", "u", "g", " ", "t", "r", "i", "a", "l", " ", "r", "e", "s", "u", "l", "t", "s">>,
    <<"B", "M", "S", " ", "M", "o", "d", "e", "r", "n", "a", " ", "d", "r", "u", "g", " ", "t", "r", "i", "a", "l", " ", "v", "a", "c", "c", "i", "n", "e">>,
    <<"M", "o", "d", "e", "r", "n", "a", " ", "v", "a", "c", "c", "i", "n", "e", " ", "t", "r", "i", "a", "l", " ", "u", "p", "d", "a", "t", "e">>,
    <<"D", "r", "u", "g", " ", "t", "r", "i", "a", "l", " ", "r", "e", "s", "u", "l", "t", "s", " ", "B", "M", "S">>,
    <<"B", "M", "S", " ", "a", "n", "d", " ", "F", "D", "A">> }

\* the title of an item the LLM pass has marked already
SkippedTitle == <<"B", "M", "S", " ", "d", "r", "u", "g", " ", "t", "r", "i", "a", "l", " ", "r", "e", "s", "u", "l", "t", "s">>

\* the i-th item of a list; items differ in id
DedupItem(i, title) == [id |-> i, title |-> title]

DedupItemLists ==
  UNION { { [i \in 1..n |-> IF titles[i] = <<>>
                            THEN SetKey(DedupItem(i, SkippedTitle), "skip", TRUE)
                            ELSE DedupItem(i, titles[i])] :
            titles \in [1..n -> DedupTitles \cup {<<>>}] } :
          n \in 0..MaxDedupItems }

InitDedup ==
  /\ pc = "dedup"
  /\ config = DefaultConfig
  /\ FEEDS = <<>>
  /\ \E items \in DedupItemLists : state = [items |-> items]
  /\ IdleUrl /\ IdleFilter /\ IdleCollect /\ IdleOut

\* a call of _run_keyword_dedup(items)
run_keyword_dedup(orders) ==
  /\ pc = "dedup"
  /\ LET keyword_marked == KeywordPass(state.items, 1, <<>>)
     IN  state' = [items |-> state.items,
                   orders |-> orders,
                   keyword_marked |-> keyword_marked,
                   marked |-> EntityPass(keyword_marked, 1, <<>>, orders),
                   result |-> _run_keyword_dedup(state.items, orders)]
  /\ pc' = "deduped"
  /\ UNCHANGED <<config, FEEDS, llm_requests, news_md, executed, urlVars, filterVars, collectVars>>

NextDedup == \E orders \in EntityOrders(state.items) : run_keyword_dedup(orders)

SpecDedup == InitDedup /\ [][NextDedup]_vars

(***************************************************************************)
(* Claims                                                                  *)
(***************************************************************************)
ItemsOf(seq) == Range(seq)
IdsOf(seq) == {seq[i].id : i \in 1..Len(seq)}

\* the items of a list that carry a source label
BySource(seq, src) == {x \in ItemsOf(seq) : x.source = src}

\* what the per-source cap leaves of n items
Capped(n) ==
  IF config.MAX_ITEMS_PER_SOURCE > 0 THEN Min(n, config.MAX_ITEMS_PER_SOURCE) ELSE n

\* every item of Kept is published no earlier than any item of All outside Kept
MostRecentOf(Kept, All) ==
  /\ Kept \subseteq All
  /\ \A r \in Kept : \A d \in All \ Kept : r.published >= d.published

\* C1: deduplicate returns exactly one item per distinct input id, an input
\* item with the latest published of that id; unique ids pass unchanged;
\* empty input gives empty output
DedupContract(input, output) ==
  /\ IdsOf(output) = IdsOf(input)
  /\ \A i, j \in 1..Len(output) : output[i].id = output[j].id => i = j
  /\ \A o \in ItemsOf(output) :
       /\ o \in ItemsOf(input)
       /\ \A x \in ItemsOf(input) : x.id = o.id => x.published <= o.published
  /\ \A x \in ItemsOf(input) :
       (\A y \in ItemsOf(input) : y.id = x.id => y = x) => x \in ItemsOf(output)
  /\ (input = <<>> => output = <<>>)

C1_Deduplicate ==
  [][pc = "filter" /\ pc' = "shortify"
       => DedupContract(Get(state, "items", <<>>), deduped')]_vars

\* three items of one id published on days 2, 3, 1 were reduced to the one
\* of day 3
C1_Witness ==
  /\ pc = "shortify"
  /\ Len(deduped) = 1
  /\ deduped[1].published = 3
  /\ deduped[1].title = <<"t", "2">>

\* C2: after node_filter, with MAX_ITEMS_PER_SOURCE > 0 no source label has
\* more than MAX_ITEMS_PER_SOURCE items, and of the n deduplicated items of
\* a label without "Papers" exactly the min(n, MAX_ITEMS_PER_SOURCE) most
\* recently published are retained; with MAX_ITEMS_PER_SOURCE = 0 the
\* per-source cap drops nothing
C2_SourceCap ==
  pc = "shortify" =>
    /\ config.MAX_ITEMS_PER_SOURCE > 0 =>
          \A src \in Sources :
            /\ Cardinality(BySource(state.items, src)) <= config.MAX_ITEMS_PER_SOURCE
            /\ ~IsPaper(src) =>
                  /\ Cardinality(BySource(state.items, src))
                       = Min(Cardinality(BySource(deduped, src)), config.MAX_ITEMS_PER_SOURCE)
                  /\ MostRecentOf(BySource(state.items, src), BySource(deduped, src))
    /\ config.MAX_ITEMS_PER_SOURCE = 0 =>
          /\ skipped_source_cap = 0
          /\ \A src \in Sources :
                ~IsPaper(src) => BySource(state.items, src) = BySource(deduped, src)

\* three deduplicated items of a label without "Papers" met a cap of 1
C2_Witness ==
  /\ pc = "shortify"
  /\ config.MAX_ITEMS_PER_SOURCE = 1
  /\ Cardinality(BySource(deduped, Newspapers)) = 3
  /\ Cardinality(BySource(state.items, Newspapers)) = 1
  /\ skipped_source_cap = 2

\* the "Papers" items of a list
PaperItems(seq) == {x \in ItemsOf(seq) : IsPaper(x.source)}

\* x is among the items of its label that the per-source cap lets through
\* whichever way ties in published are broken / for some way of breaking them
SurelyLetThrough(x) ==
  config.MAX_ITEMS_PER_SOURCE > 0 =>
    Cardinality({y \in BySource(deduped, x.source) :
                   y # x /\ y.published >= x.published}) < config.MAX_ITEMS_PER_SOURCE
MaybeLetThrough(x) ==
  config.MAX_ITEMS_PER_SOURCE > 0 =>
    Cardinality({y \in BySource(deduped, x.source) :
                   y.published > x.published}) < config.MAX_ITEMS_PER_SOURCE

RECURSIVE SumCapped(_)
\* the number of "Papers" items the per-source cap lets through
SumCapped(srcs) ==
  IF srcs = {} THEN 0
  ELSE LET src == CHOOSE x \in srcs : TRUE
       IN  (IF IsPaper(src) THEN Capped(Cardinality(BySource(deduped, src))) ELSE 0)
             + SumCapped(srcs \ {src})

RECURSIVE SumOverCap(_)
\* the number of items over the per-source cap, all labels together
SumOverCap(srcs) ==
  IF srcs = {} THEN 0
  ELSE LET src == CHOOSE x \in srcs : TRUE
           n   == Cardinality(BySource(deduped, src))
       IN  (n - Capped(n)) + SumOverCap(srcs \ {src})

\* C3: after node_filter the retained "Papers" items, all labels together,
\* are the PAPER_LIMIT most recently published of the "Papers" items the
\* per-source cap lets through (all of them when they are fewer); the paper
\* cap drops no item without "Papers"; and what the per-source cap drops
\* does not depend on what the paper cap drops
C3_PaperCap ==
  pc = "shortify" =>
    LET kept == PaperItems(state.items)
    IN  /\ Cardinality(kept) = Min(SumCapped(Sources), config.PAPER_LIMIT)
        /\ \A r \in kept : r \in ItemsOf(deduped) /\ MaybeLetThrough(r)
        /\ \A r \in kept : \A d \in PaperItems(deduped) \ kept :
              SurelyLetThrough(d) => r.published >= d.published
        /\ \A src \in Sources :
              ~IsPaper(src) =>
                Cardinality(BySource(state.items, src))
                  = Capped(Cardinality(BySource(deduped, src)))
        /\ skipped_source_cap = SumOverCap(Sources)
        /\ skipped_papers = SumCapped(Sources) - Cardinality(kept)
        /\ Len(state.items) = Len(deduped) - skipped_source_cap - skipped_papers

\* two "Papers" labels, one cut to 1 item by the per-source cap, met a paper
\* limit of 1: one item fell to each cap
C3_Witness ==
  /\ pc = "shortify"
  /\ config.MAX_ITEMS_PER_SOURCE = 1 /\ config.PAPER_LIMIT = 1
  /\ Cardinality(BySource(deduped, NatPapers)) = 2
  /\ Cardinality(BySource(deduped, PapersX)) = 1
  /\ skipped_source_cap = 1 /\ skipped_papers = 1
  /\ Cardinality(PaperItems(state.items)) = 1

\* the taxonomy of six category names
Taxonomy == Range(CATEGORIES)

\* the text written to news.md
Written == news_md[Len(news_md)]

\* the heading the k-th line stands under (k is the line of an item)
HeadingOf(md, k) ==
  LET h == CHOOSE h \in 1..(k-1) :
             md[h].kind = "heading" /\ \A j \in (h+1)..(k-1) : md[j].kind # "heading"
  IN  md[h].category

\* the item of the input the k-th line renders (links are unique)
ItemOfLine(md, k) == CHOOSE it \in ItemsOf(state.items) : it.link = md[k].link

\* C4 (as claimed): every item whose category is not one of the six taxonomy
\* names, or that has none, is rendered under "### Company News", and every
\* subsection heading is one of the six taxonomy names
C4_UnknownUnderCompanyNews ==
  pc = "END" =>
    /\ \A k \in 1..Len(Written) :
         Written[k].kind = "heading" => Written[k].category \in Taxonomy
    /\ \A k \in 1..Len(Written) :
         (Written[k].kind = "item"
            /\ Get(ItemOfLine(Written, k), "category", NoCategory) \notin Taxonomy)
           => HeadingOf(Written, k) = "Company News"

\* C5 (as claimed): within each subsection the items stand by published
\* descending, ties by source label ascending, whatever the input order
C5_SortedWithinSection ==
  pc = "END" =>
    \A k \in 1..(Len(Written) - 1) :
      (Written[k].kind = "item" /\ Written[k+1].kind = "item") =>
        LET a == ItemOfLine(Written, k)
            b == ItemOfLine(Written, k + 1)
        IN  \/ a.published > b.published
            \/ a.published = b.published /\ StrLeq(a.source, b.source)

\* C6 (as claimed): normalize_url(normalize_url(u)) = normalize_url(u)
C6_Idempotent == pc = "normalized" => normalize_url(normalized) = normalized

NonTracking(pairs) ==
  Select(pairs, [i \in 1..Len(pairs) |-> lower(pairs[i][1]) \notin _TRACKING_PARAMS])

\* C7 (as claimed): the query of normalize_url(u) holds exactly the
\* non-tracking parameters of u, each occurrence with its value, in the
\* relative order they have in u
C7_QueryKeptInOrder ==
  pc = "normalized" =>
    parse_qsl(urlparse(normalized).query) = NonTracking(parse_qsl(urlparse(url).query))

\* the order of the pipeline
NodeOrder == <<"collect", "filter", "shortify", "categorize", "render">>

\* the nodes that stand before node in the order
NodesBefore(node) ==
  SubSeq(NodeOrder, 1, (CHOOSE i \in 1..Len(NodeOrder) : NodeOrder[i] = node) - 1)

C8_Order ==
  \* the run stands in a node, has ended, or has raised
  /\ pc \in Range(NodeOrder) \cup {"END", "raised"}
  \* a node runs when exactly the nodes before it have returned, once each
  /\ pc \in Range(NodeOrder) => executed = NodesBefore(pc)
  \* a run that ends without an exception has run the five nodes in order
  \* and has written news.md once
  /\ pc = "END" => executed = NodeOrder /\ Len(news_md) = 1
  \* a run that raised has run the nodes in order up to the one that raised
  /\ pc = "raised" => \E n \in 0..Len(NodeOrder) : executed = SubSeq(NodeOrder, 1, n)
  \* news.md is not written before render
  /\ news_md # <<>> => executed = NodeOrder

\* a step that writes news.md is the step of render, after categorize has
\* returned, and it is the first write of the run
C8_Write ==
  news_md' # news_md =>
    /\ pc = "render" /\ executed = NodesBefore("render")
    /\ news_md = <<>> /\ Len(news_md') = 1
    /\ executed' = NodeOrder

\* a node that returns is the node that was running, it returns once, and
\* the run goes on to the node after it in the order, or ends after render
C8_Return ==
  executed' # executed =>
    /\ pc \in Range(NodeOrder)
    /\ executed' = Append(executed, pc)
    /\ pc' = (IF pc = "render" THEN "END" ELSE NodeOrder[Len(executed') + 1])

\* C8: in every run of the compiled graph the nodes run one at a time, in
\* the order collect, filter, shortify, categorize, render, each when the
\* one before it has returned, whatever the state holds; a run that ends
\* with no exception raised has run each node exactly once, and news.md is
\* written exactly once, by render, after categorize returned.
C8_PipelineOrder ==
  []C8_Order /\ [][C8_Return]_vars /\ [][C8_Write]_vars

\* a run with an LLM credential ended: five nodes, one write, items rendered
C8_Witness ==
  /\ pc = "END" /\ executed = NodeOrder /\ Len(news_md) = 1
  /\ config.OPENAI_API_KEY /\ state.items # <<>>
  /\ state.markdown = news_md[1]

\* the outcome that ended the fetch of feed i
LastOutcome(i) == fetch_log[i].outcome

\* an exception is a network-level error (connection error, timeout)
NetworkError(exc) == exc \in {"URLError", "socket.timeout", "TimeoutError"}

\* feed i parsed successfully, without the bozo flag
ParsedWell(i) == LastOutcome(i).kind = "parsed" /\ ~LastOutcome(i).bozo

NonBlank(e, key) == key \in DOMAIN e /\ \E k \in 1..Len(e[key]) : e[key][k] # " "

\* the instant an entry is dated with: its publication time, else its
\* update time, in UTC hours as the program reads it
DatedAt(e) ==
  (IF "published_parsed" \in DOMAIN e THEN e.published_parsed ELSE e.updated_parsed)
    - config.TZ

\* an entry qualifies: it is dated, not older than 24 hours, and has a
\* title and a link that are not blank
Qualifies(e) ==
  /\ {"published_parsed", "updated_parsed"} \cap DOMAIN e # {}
  /\ _now - DatedAt(e) <= 24
  /\ NonBlank(e, "title") /\ NonBlank(e, "link")

\* the items the qualifying entries of feed i make, in feed order
QualifyingItems(i) ==
  LET es == LastOutcome(i).entries
      q  == Select(es, [k \in 1..Len(es) |-> Qualifies(es[k])])
  IN  [k \in 1..Len(q) |->
         [id |-> sha1(normalize_url(strip(q[k].link))), title |-> strip(q[k].title),
          link |-> strip(q[k].link), source |-> FEEDS[i].source,
          published |-> DatedAt(q[k]), category |-> FEEDS[i].category]]

RECURSIVE ItemsOfFeeds(_)
\* the qualifying entries of the first n feeds, those that failed or are
\* bozo left out
ItemsOfFeeds(n) ==
  IF n = 0 THEN <<>>
  ELSE ItemsOfFeeds(n - 1) \o (IF ParsedWell(n) THEN QualifyingItems(n) ELSE <<>>)

\* while collect_items runs: no exception has left it, the feeds before
\* feed_i have been fetched, and its list holds the items of those
C9_Loop ==
  /\ pc # "raised"
  /\ pc = "collect" =>
       /\ feed_i \in 1..(Len(FEEDS) + 1)
       /\ Len(fetch_log) = feed_i - 1
       /\ collected = ItemsOfFeeds(Len(fetch_log))

\* the step in which collect_items returns: every feed has been fetched
\* and the items returned are those of all the feeds
C9_Return ==
  pc = "collect" /\ pc' # "collect" =>
    /\ Len(fetch_log) = Len(FEEDS)
    /\ state'.items = ItemsOfFeeds(Len(FEEDS))
    /\ executed' = <<"collect">>

C10_Attempts ==
  \* the fetch under way: every attempt so far failed with a network-level
  \* error and the budget is not used up
  /\ \A k \in 1..Len(failures) : NetworkError(failures[k])
  /\ Len(failures) < config.RSS_RETRIES + 1
  \* the fetches that ended
  /\ \A i \in 1..Len(fetch_log) :
       /\ fetch_log[i].attempts \in 1..(config.RSS_RETRIES + 1)
       /\ (LastOutcome(i).kind = "raised" /\ NetworkError(LastOutcome(i).exc))
            => fetch_log[i].attempts = config.RSS_RETRIES + 1

C10_Step ==
  /\ \* a further attempt follows a network-level failure only
     failures' # failures /\ failures' # <<>> =>
       /\ Len(failures') = Len(failures) + 1
       /\ NetworkError(failures'[Len(failures')])
       /\ UNCHANGED <<pc, feed_i, collected, fetch_log>>
  /\ \* the attempt that ends a fetch is the only one not yet counted, and a
     \* fetch that ends in failure is contained: the loop goes on to the next
     \* feed with no item added
     Len(fetch_log') > Len(fetch_log) =>
       /\ Len(fetch_log') = Len(fetch_log) + 1
       /\ fetch_log'[Len(fetch_log')].attempts = Len(failures) + 1
       /\ failures' = <<>> /\ feed_i' = feed_i + 1 /\ pc' = "collect"
       /\ fetch_log'[Len(fetch_log')].outcome.kind = "raised" => collected' = collected

\* C10: a feed's fetch makes at most RSS_RETRIES + 1 attempts; a further
\* attempt is made only after a network-level failure and while attempts
\* are left, so a success or another failure ends the fetch at once; a
\* fetch whose last attempt failed with a network-level error has used all
\* RSS_RETRIES + 1 attempts; a fetch that ends in failure is contained:
\* collect_items adds nothing and goes on to the next feed.
C10_RetryBudget == []C10_Attempts /\ [][C10_Step]_vars

\* with RSS_RETRIES = 2 a feed was tried three times, each attempt failing
\* with a network-level error, and the next feed was fetched
C10_Witness ==
  /\ config.RSS_RETRIES = 2 /\ Len(fetch_log) = 2
  /\ fetch_log[1].attempts = 3
  /\ LastOutcome(1).kind = "raised" /\ NetworkError(LastOutcome(1).exc)
  /\ ParsedWell(2)

\* feeds.json is missing, cannot be read, or does not hold a JSON object
\* whose values are objects with category and source
MalformedFeedsFile ==
  \/ config.feeds_json.read # "ok"
  \/ config.feeds_json.json # "dict"
  \/ pc # "import" /\ \E i \in 1..Len(FEEDS) : ~has_category_and_source(FEEDS[i])

\* C11: when feeds.json is missing, unreadable or malformed, the process
\* does not abort, the registry is empty once loaded, and a run that ends
\* has run the five nodes with no item and has written the placeholder
\* text, and nothing else, to news.md.
C11_EmptyRegistryOnBadFile ==
  MalformedFeedsFile =>
    /\ pc # "raised"
    /\ pc # "import" => FEEDS = <<>>
    /\ pc = "END" => /\ executed = NodeOrder
                     /\ state.items = <<>>
                     /\ news_md = <<Placeholder>>

\* the k-th keyword rule matches the title: one of its words occurs in the
\* lowercased title
RuleMatches(k, title) ==
  \E w \in keyword_rules[k].words : contains(lower(title), w)

\* the category the claim's first-match-wins rule gives: that of the first
\* rule that matches, in the order of the taxonomy, or Company News
FirstMatchCategory(title, category) ==
  /\ \A k \in 1..Len(CATEGORIES) :
       (RuleMatches(k, title) /\ \A j \in 1..(k - 1) : ~RuleMatches(j, title))
         => category = CATEGORIES[k]
  /\ (\A k \in 1..Len(CATEGORIES) : ~RuleMatches(k, title))
       => category = "Company News"

\* the items of the state handed to render
RenderedItems == IF pc \in {"render", "END"} THEN Get(state, "items", <<>>) ELSE <<>>

CategorizeReturns == pc = "categorize" /\ pc' = "render" /\ Get(state, "items", <<>>) # <<>>

\* the request node_categorize issued in this step, if it issued one
CategorizeCall == llm_requests'[Len(llm_requests')]
CategorizeCalled ==
  Len(llm_requests') = Len(llm_requests) + 1 /\ CategorizeCall.node = "categorize"

\* the non-blank lines of the reply, when it has text
ReplyLines(call) ==
  IF call.reply.kind = "content" /\ call.reply.content # <<>>
  THEN CategoryLines(call.reply.content) ELSE <<>>

\* "SKIP" in line.upper()
SaysSkip(line) == contains(upper(line), <<"S", "K", "I", "P">>)

IdsOfItems(items) == {items[i].id : i \in 1..Len(items)}

\* no item handed to render carries a set skip flag
C13_NoSkipFlag ==
  \A i \in 1..Len(RenderedItems) : ~Get(RenderedItems[i], "skip", FALSE)

\* the items returned are items of the state before, and none of them is
\* one the reply marked with a SKIP line
C13_Return ==
  CategorizeReturns =>
    /\ IdsOfItems(state'.items) \subseteq IdsOfItems(state.items)
    /\ \A i \in 1..Len(state'.items) : ~Get(state'.items[i], "skip", FALSE)
    /\ CategorizeCalled =>
         \A i \in 1..Min(Len(ReplyLines(CategorizeCall)), Len(state.items)) :
           SaysSkip(ReplyLines(CategorizeCall)[i])
             => state.items[i].id \notin IdsOfItems(state'.items)

\* C13: on every path through node_categorize no item of the state handed
\* to render has its skip flag set: the items marked by a SKIP line of the
\* reply or by the duplicate detector are not in the state categorize
\* returns.
C13_SkippedItemsRemoved == []C13_NoSkipFlag /\ [][C13_Return]_vars

\* categorize asked for two titles, the reply's second line says skip, and
\* render is handed fewer items than were asked about
C13_Witness ==
  /\ pc = "render" /\ llm_requests # <<>>
  /\ LET call == llm_requests[Len(llm_requests)]
     IN  /\ call.node = "categorize" /\ Len(call.titles) = 2
         /\ Len(ReplyLines(call)) = 2 /\ SaysSkip(ReplyLines(call)[2])
         /\ Len(state.items) = 1 /\ state.items[1].title = call.titles[1]

\* the category a reply line gives an item: none when the line says SKIP,
\* else the first name of the taxonomy, in taxonomy order, that occurs in
\* the line whatever the case, else the keyword rule's category of the title
LineGives(line, title, category) ==
  LET named == {k \in 1..Len(CATEGORIES) :
                  contains(lower(line), lower(CategoryChars[k]))}
  IN  /\ \A k \in named : (\A j \in named : k <= j) => category = CATEGORIES[k]
      /\ named = {} => FirstMatchCategory(title, category)

\* what the claim says of the step in which node_categorize returns after
\* a request that met a reply with the non-blank lines lines
DecidedByLines(lines) ==
  \A i \in 1..Len(state.items) : \A j \in 1..Len(state'.items) :
    state'.items[j].id = state.items[i].id =>
      /\ i <= Len(lines) => /\ ~SaysSkip(lines[i])
                            /\ LineGives(lines[i], state.items[i].title,
                                          state'.items[j].category)
      /\ i > Len(lines) => state'.items[j].category = state.items[i].category
      /\ state'.items[j].title = state.items[i].title

\* C14 as claimed: for every reply, of k >= 0 non-blank lines
C14_ReplyLinesDecide_any_reply ==
  [][(CategorizeReturns /\ CategorizeCalled /\ CategorizeCall.reply.kind = "content")
       => DecidedByLines(CategoryLines(CategorizeCall.reply.content))]_vars

\* C14 (amended): with a credential and a reply that is not empty, of k
\* non-blank lines for n items, the i-th line decides the i-th item for
\* i <= min(k, n): a line that says SKIP (any case) removes the item even if
\* it names a category, else the item gets the first taxonomy category, in
\* taxonomy order, that occurs in the line whatever the case, else the
\* keyword category of its title; an item beyond k keeps the category it
\* had, and lines beyond n are ignored.
C14_ReplyLinesDecide ==
  [][(CategorizeReturns /\ CategorizeCalled /\ CategorizeCall.reply.kind = "content"
        /\ CategorizeCall.reply.content # <<>>)
       => DecidedByLines(CategoryLines(CategorizeCall.reply.content))]_vars

\* a reply of four lines for three items: the first item is removed by a
\* line that names a category and says skip, the second gets the category
\* that comes first in the taxonomy of the two its line names, the third,
\* whose line names none, the keyword category of its title
C14_Witness ==
  /\ pc = "render" /\ llm_requests # <<>>
  /\ LET call == llm_requests[Len(llm_requests)]
         lines == ReplyLines(call)
     IN  /\ call.node = "categorize" /\ Len(call.titles) = 3 /\ Len(lines) = 4
         /\ SaysSkip(lines[1]) /\ contains(lower(lines[1]), lower(CategoryChars[4]))
         /\ Len(state.items) = 2
         /\ state.items[1].title = call.titles[2]
         /\ state.items[1].category = "Deals & Finance"
         /\ state.items[2].title = call.titles[3]
         /\ state.items[2].category = "Regulatory & FDA"

\* the step in which node_shortify returns, having had a credential and items
ShortifyReturns ==
  /\ pc = "shortify" /\ pc' = "categorize"
  /\ config.OPENAI_API_KEY /\ Get(state, "items", <<>>) # <<>>

\* the requests issued in this step
NewRequests == SubSeq(llm_requests', Len(llm_requests) + 1, Len(llm_requests'))

\* the positions of the b-th batch of 20 among n items
BatchOf(b, n) == {i \in 1..n : 20 * (b - 1) < i /\ i <= 20 * b}

\* the request failed or its reply is empty
NoReply(request) == request.reply.kind = "raised" \/ request.reply.content = <<>>

C15_Step ==
  ShortifyReturns =>
    LET n == Len(state.items)
    IN  \* ceil(n / 20) requests
        /\ Len(NewRequests) * 20 >= n /\ (Len(NewRequests) - 1) * 20 < n
        /\ \A b \in 1..Len(NewRequests) :
             \* the b-th request lists the titles of the b-th batch, in order
             /\ NewRequests[b].node = "shortify"
             /\ Len(NewRequests[b].titles) = Cardinality(BatchOf(b, n))
             /\ \A i \in BatchOf(b, n) :
                  NewRequests[b].titles[i - 20 * (b - 1)] = state.items[i].title
             \* a batch without a reply keeps its titles
             /\ NoReply(NewRequests[b]) =>
                  \A i \in BatchOf(b, n) : state'.items[i] = state.items[i]
        /\ Len(state'.items) = n

\* C15: with a credential and n > 0 items node_shortify issues one request
\* for each batch of up to 20 consecutive items, in order, ceil(n/20) in
\* all, whichever of them fail: a batch whose request fails or has an empty
\* reply keeps its titles, the requests of the later batches are issued all
\* the same, and the node returns.
C15_OneRequestPerBatch == [][C15_Step]_vars

\* 41 items: the first request failed, the second had an empty reply, the
\* third was issued all the same and its reply gave item 41 a new title
C15_Witness ==
  /\ pc = "categorize" /\ Len(state.items) = 41 /\ Len(llm_requests) = 3
  /\ llm_requests[1].reply.kind = "raised"
  /\ llm_requests[2].reply = Content(<<>>)
  /\ llm_requests[3].titles = <<ShortItem(41).title>>
  /\ state.items[41].title # ShortItem(41).title
  /\ \A i \in 1..40 : state.items[i] = ShortItem(i)

\* the texts after the number of the number-prefixed lines of a reply, in
\* the order of the lines
NumberedTexts(request) ==
  IF NoReply(request) THEN <<>> ELSE ShortenedLines(request.reply.content)

C16_Step ==
  ShortifyReturns =>
    LET n == Len(state.items)
    IN  /\ Len(state'.items) = n
        /\ \A b \in 1..Len(NewRequests) : \A i \in BatchOf(b, n) :
             LET texts == NumberedTexts(NewRequests[b])
                 p     == i - 20 * (b - 1)
                 old   == state.items[i]
                 new   == state'.items[i]
             IN  \* the p-th numbered line gives the p-th item of the batch
                 \* its title, unless its text is empty
                 /\ new.title = IF p <= Len(texts) /\ texts[p] # <<>>
                                 THEN texts[p] ELSE old.title
                 \* no other field changes, and the item stays in its place
                 /\ DOMAIN new = DOMAIN old
                 /\ \A k \in DOMAIN old \ {"title"} : new[k] = old[k]

\* C16: in node_shortify, for a batch of m items and a reply with j
\* number-prefixed lines, the p-th of these lines, whatever its number,
\* gives the p-th item of the batch its title when p <= m and the text
\* after the prefix is not empty; the items beyond j and those whose line
\* has no text keep their titles; no other field changes and no item is
\* added, removed or moved.
C16_TitlesByPosition == [][C16_Step]_vars

\* a batch of one item after a full batch: the line numbered 7 comes first
\* and names item 21, the reply's later lines find no item; in the full
\* batch the same reply names items 1 and 3 and its line without text
\* leaves item 2 its title
C16_Witness ==
  /\ pc = "categorize" /\ Len(state.items) = 21 /\ Len(llm_requests) = 2
  /\ llm_requests[1].reply \in MoreShortifyReplies
  /\ llm_requests[2].reply \in MoreShortifyReplies
  /\ Len(NumberedTexts(llm_requests[1])) = 3
  /\ state.items[1].title = <<"L", "a", "t", "e">>
  /\ state.items[2] = ShortItem(2)
  /\ state.items[3].title = <<"T", "h", "i", "r", "d">>
  /\ state.items[4] = ShortItem(4)
  /\ state.items[21].title = <<"L", "a", "t", "e">>

\* a call of the detector has returned
Deduped == pc = "deduped"

\* the item was marked before the detector ran
MarkedBefore(i) == Get(state.items[i], "skip", FALSE)

\* the fingerprint of the i-th item handed to the detector
FingerprintOf(item) == Fingerprint(_extract_keywords(item.title))

\* the first loop marked the i-th item
MarkedByKeywords(i) == ~MarkedBefore(i) /\ Get(state.keyword_marked[i], "skip", FALSE)

\* C17: in the first loop of _run_keyword_dedup, over the items not marked
\* already: an item is marked exactly when its fingerprint is not empty
\* and an earlier such item has the same fingerprint, so the earliest item
\* of each fingerprint is not marked, every later one is, and an item with
\* an empty fingerprint never is; the items marked already are left as
\* they were; and no two items of the list the detector returns have the
\* same non-empty fingerprint.
C17_KeywordPass ==
  Deduped =>
    LET n == Len(state.items)
    IN  /\ Len(state.keyword_marked) = n
        /\ \A i \in 1..n :
             IF MarkedBefore(i) THEN state.keyword_marked[i] = state.items[i]
             ELSE /\ MarkedByKeywords(i) <=>
                       /\ FingerprintOf(state.items[i]) # <<>>
                       /\ \E j \in 1..(i - 1) :
                            /\ ~MarkedBefore(j)
                            /\ FingerprintOf(state.items[j]) = FingerprintOf(state.items[i])
                  /\ ~MarkedByKeywords(i) => state.keyword_marked[i] = state.items[i]
        /\ \A a, b \in 1..Len(state.result) :
             a # b /\ FingerprintOf(state.result[a]) # <<>>
               => FingerprintOf(state.result[a]) # FingerprintOf(state.result[b])

\* the first item was marked before, the second is the earliest unmarked
\* item of its fingerprint and stays, the third has the same keywords in
\* another order and is marked as a duplicate of the second
C17_Witness ==
  /\ Deduped /\ Len(state.items) = 3
  /\ MarkedBefore(1) /\ ~MarkedBefore(2) /\ ~MarkedBefore(3)
  /\ state.items[1].title = state.items[2].title
  /\ state.items[3].title # state.items[2].title
  /\ FingerprintOf(state.items[3]) = FingerprintOf(state.items[2])
  /\ ~MarkedByKeywords(2) /\ MarkedByKeywords(3)
  /\ state.keyword_marked[3].skip_reason = [duplicate |-> "keyword", of |-> 1]
  /\ IdsOfItems(state.result) = {2}

\* the i-th item went into the second loop unmarked
SurvivedKeywords(i) == ~Get(state.keyword_marked[i], "skip", FALSE)

\* the second loop marked the i-th item
MarkedByEntities(i) == SurvivedKeywords(i) /\ Get(state.marked[i], "skip", FALSE)

\* the entities of an item that the second loop does not pass over
SpecificEntities(item) == _extract_entities(item.title) \ generic_entities

KeywordSet(item) == Range(_extract_keywords(item.title))

\* the two items have a specific entity and at least two keywords in common
EntityDuplicates(a, b) ==
  /\ SpecificEntities(a) \cap SpecificEntities(b) # {}
  /\ Cardinality(KeywordSet(a) \cap KeywordSet(b)) >= 2

\* C18: in the second loop of _run_keyword_dedup an item that survived the
\* first loop is marked exactly when an earlier item that survived the
\* first loop has one of its entities other than fda, nih, cdc, ema and at
\* least 2 of its keywords.
C18_EntityPass ==
  Deduped =>
    \A i \in 1..Len(state.items) :
      SurvivedKeywords(i) =>
        (MarkedByEntities(i) <=>
           \E j \in 1..(i - 1) :
             SurvivedKeywords(j) /\ EntityDuplicates(state.items[j], state.items[i]))

\* C19: the list _run_keyword_dedup returns for a list of items is the same
\* for every order in which the entity sets of the items are iterated, and
\* no item is marked as an entity duplicate of an item that the detector
\* marks itself.
C19_Deterministic ==
  Deduped =>
    /\ \A orders \in EntityOrders(state.items) :
         _run_keyword_dedup(state.items, orders) = state.result
    /\ \A i \in 1..Len(state.items) :
         MarkedByEntities(i) =>
           ~Get(state.marked[state.marked[i].skip_reason.of + 1], "skip", FALSE)
====
